---- MODULE Spec2Model ----
(***************************************************************************)
(* Bounded priority buffer of the ELE430 producer-consumer coursework.     *)
(*                                                                         *)
(*   queue.c   array-backed container, FIFO insertion, priority removal    *)
(*   sync.c    one mutex and two counting semaphores (items, slots)        *)
(*   buffer.c  put / get / count and the interruptible put / get           *)
(*   main.c    the stop flag; thread creation, timeout, joins, cleanup     *)
(*   workers.c producer_thread and consumer_thread                         *)
(*   util.c    sleep_interruptible_ms                                      *)
(*                                                                         *)
(* Every step of a thread is one access to shared memory: a semaphore      *)
(* operation, a mutex operation, a load of stop_flag, or a queue operation *)
(* made between sync_lock and sync_unlock.                                 *)
(***************************************************************************)
EXTENDS Integers, Sequences, FiniteSets, TLC

\* ------------------------------------------------------------------ bounds
MaxCap   == 1      \* capacities 1..MaxCap are given to buffer_init
MaxPuts  == 2      \* put calls (of either form) started in one run
QCap     == 3      \* sequential queue driver: capacities 1..QCap
MaxPush  == 4      \* sequential queue driver: queue_push calls made
MaxPrio  == 2      \* sequential queue driver: priorities 0..MaxPrio
MaxEintr == 2      \* wait helpers: sem_wait / sem_timedwait calls of one helper call
                   \*   that a signal interrupts
MaxTime  == 3      \* wait helpers: the clock runs from 0 to MaxTime
MaxSleep == 3      \* the longest total_ms a worker passes to sleep_interruptible_ms, in ticks

\* timeout_ms of a timed wait, in ticks of the clock
PollTicks == 2

\* p1 calls buffer_put, p2 buffer_put_interruptible; c1 calls buffer_get,
\* c2 buffer_get_interruptible; main calls buffer_count and sets stop_flag
BlockingPut == {"p1"}
PollingPut  == {"p2"}
BlockingGet == {"c1"}
PollingGet  == {"c2"}
Producers == BlockingPut \cup PollingPut
Consumers == BlockingGet \cup PollingGet
Main      == "main"
Threads   == Producers \cup Consumers \cup {Main}
NoThread  == "none"

\* main.c creates producer i with id i and fixed_priority i % 10
ProducerId == [t \in Producers |-> IF t \in BlockingPut THEN 0 ELSE 1]
fixed_priority(i) == i % 10

\* what the unset seq field of a caller's message may hold when queue_push copies it
CallerSeq == {0, MaxPuts + 1}

\* the fields of msg_t a caller of put sets
NoMsg == [value |-> 0, priority |-> 0, producer_id |-> 0]

Priorities == 0..MaxPrio

\* a thread pthread_create has not started
NoWorker == [at |-> "none", entry |-> 0, called |-> FALSE, ops |-> 0, max_q |-> 0,
             rc |-> 0, errors |-> 0, exits |-> 0,
             total |-> 0, remaining |-> 0, chunk |-> 0, slept |-> 0, late |-> 0]

\* <stdlib.h>
EXIT_SUCCESS == 0
EXIT_FAILURE == 1

\* main after buffer_init returned 0: about to call logger_init
MainAtStart == [at |-> "logger_init", lg_ok |-> FALSE, i |-> 0,
                started_producers |-> 0, started_consumers |-> 0,
                start_failed |-> FALSE, joined |-> {}, stores |-> 0,
                early |-> FALSE, prod_ops |-> 0, cons_ops |-> 0, run_end |-> FALSE,
                destroyed |-> FALSE, slept |-> FALSE, exit_code |-> EXIT_FAILURE]

\* the caller of the sync.c wait helpers before its first call
NoSync == [at |-> "idle", fn |-> "none", sem |-> "none", rc |-> 0, errno |-> "none",
           ts |-> 0, now |-> 0, ret |-> 0, t0 |-> 0, eintr |-> 0, took |-> 0]

\* the history of a call that has done nothing yet
NoCall == [saw |-> 0, cs |-> -1, dslots |-> 0, ditems |-> 0, muts |-> 0, taken |-> 0,
           tmo |-> 0]

VARIABLES
    q,          \* queue_t  : [buf, capacity, count, next_seq]
    slots,      \* sync_t.slots (semaphore value)
    items,      \* sync_t.items (semaphore value)
    mtx,        \* sync_t.mtx   (owning thread, or NoThread)
    stop_flag,  \* main's atomic_int stop_flag
    pc,         \* per thread: the statement it is about to execute
    op,         \* per thread: the buffer operation it is in / was last in
    m,          \* per thread: the message handed to the put it is in
    out,        \* per thread: the caller's output message of get
    rcq,        \* per thread: local rc of queue_push / queue_pop; c of buffer_count
    rc,         \* per thread: return code of its last completed operation
    putCalls,   \* history: put calls started
    nPutOK,     \* history: put calls that returned 0
    nGetOK,     \* history: get calls that returned 0
    nPushed,    \* history: queue_push calls made by a put that returned 0
    nSlotPost,  \* history: gets that posted their slot back
    fullAtCall, \* history: per thread, the put started with C unmatched puts
                \*          and no get has posted a slot since
    inserted,   \* history: seq -> number of pushes that stored a message with it
    delivered,  \* history: seq -> number of gets that returned 0 with it
    call,       \* history: per thread, what its current / last put or get has done:
                \*   saw    1 once it has loaded stop_flag as set, else 0
                \*   cs     the value its check after sync_lock loaded from stop_flag
                \*          (-1: it has not made that check, or it has returned)
                \*   dslots, ditems  its posts minus its takes on each semaphore
                \*   muts   its queue_push / queue_pop calls that returned 0
                \*   taken  the semaphore tokens it took
                \*   tmo    1 while its last step was a timed wait that timed out
    phase,      \* sequential driver: "fill" (only pushes since the queue was empty),
                \*   "drain" (pushes, then only pops) or "mixed"
    popped,     \* sequential driver: messages popped since the last push into an empty queue
    qPrev,      \* sequential driver: the queue as it was before the last call
    lastQ,      \* sequential driver: the last call, "none", "push" or "pop"
    w,          \* the run: per worker thread, where it is in producer_thread /
                \*   consumer_thread (at), its local rc, its statistics (ops, max_q),
                \*   and history: stop_flag when its last call was made (entry), whether
                \*   it has made a call (called), the *_ERROR and *_EXIT events it logged;
                \*   inside sleep_interruptible_ms: total_ms (total), remaining, chunk,
                \*   and history: the time slept so far (slept) and the chunks that
                \*   ended with stop_flag set (late)
    mn,         \* the run: where main is, its locals (lg_ok, i, started_*, start_failed,
                \*   prod_ops, cons_ops, exit_code) and what it has done
    sy          \* sync.c driven by one caller: where it is in sem_wait_retry /
                \*   sem_timedwait_retry (at), the helper (fn) and semaphore (sem), the
                \*   locals rc and ts, errno, the clock (now), the helper's return value
                \*   (ret), and history: the clock when ts was computed (t0), the EINTR
                \*   returns (eintr) and the tokens taken (took) in the current call

vars == <<q, slots, items, mtx, stop_flag, pc, op, m, out, rcq, rc,
          putCalls, nPutOK, nGetOK, nPushed, nSlotPost, fullAtCall,
          inserted, delivered, call, phase, popped, qPrev, lastQ, w, mn, sy>>

sharedVars == <<q, slots, items, mtx, stop_flag>>
histVars   == <<putCalls, nPutOK, nGetOK, nPushed, nSlotPost, fullAtCall,
                inserted, delivered>>
seqVars    == <<phase, popped, qPrev, lastQ>>
runVars    == <<w, mn>>

\* ------------------------------------------------------------------ queue.c

\* calloc'ed msg_t: every field zero
ZeroMsg == [value |-> 0, priority |-> 0, producer_id |-> 0, seq |-> 0]

\* queue_init: buf of `capacity` zeroed messages, count 0, next_seq 1
queue_init(capacity) ==
    [buf      |-> [i \in 0..(capacity - 1) |-> ZeroMsg],
     capacity |-> capacity,
     count    |-> 0,
     next_seq |-> 1]

queue_is_full(qq)  == qq.count >= qq.capacity

queue_is_empty(qq) == qq.count = 0

\* faulty variant: the message is stored with the seq its caller left in it
queue_push_keepseq(qq, mm) ==
    IF queue_is_full(qq)
    THEN [rc |-> -2, q |-> qq]
    ELSE [rc |-> 0,
          q  |-> [qq EXCEPT !.buf[qq.count] = mm,
                            !.next_seq = @ + 1,
                            !.count = @ + 1]]

\* faulty variant: the message is stored without its producer id
queue_push_noid(qq, mm) ==
    IF queue_is_full(qq)
    THEN [rc |-> -2, q |-> qq]
    ELSE [rc |-> 0,
          q  |-> [qq EXCEPT !.buf[qq.count] = [mm EXCEPT !.seq = qq.next_seq,
                                                        !.producer_id = 0],
                            !.next_seq = @ + 1,
                            !.count = @ + 1]]

\* faulty variant: a push into a full queue overwrites the last message before it
\* returns -2
queue_push_overwrite(qq, mm) ==
    IF queue_is_full(qq)
    THEN [rc |-> -2, q |-> [qq EXCEPT !.buf[qq.count - 1] = [mm EXCEPT !.seq = qq.next_seq]]]
    ELSE [rc |-> 0,
          q  |-> [qq EXCEPT !.buf[qq.count] = [mm EXCEPT !.seq = qq.next_seq],
                            !.next_seq = @ + 1,
                            !.count = @ + 1]]

\* queue_push: [rc, q]
queue_push(qq, mm) ==
    IF queue_is_full(qq)
    THEN [rc |-> -2, q |-> qq]
    ELSE [rc |-> 0,
          q  |-> [qq EXCEPT !.buf[qq.count] = [mm EXCEPT !.seq = qq.next_seq],
                            !.next_seq = @ + 1,
                            !.count = @ + 1]]

\* the for loop of best_index_to_pop from index i on, with the running `best`
RECURSIVE best_loop(_, _, _)
best_loop(qq, i, best) ==
    IF i >= qq.count
    THEN best
    ELSE best_loop(qq, i + 1,
            IF qq.buf[i].priority > qq.buf[best].priority
            THEN i
            ELSE IF qq.buf[i].priority = qq.buf[best].priority
                    /\ qq.buf[i].seq < qq.buf[best].seq
                 THEN i
                 ELSE best)

\* faulty variant: `>=` on the priority, so the last of several equal priorities wins
RECURSIVE best_loop_last(_, _, _)
best_loop_last(qq, i, best) ==
    IF i >= qq.count
    THEN best
    ELSE best_loop_last(qq, i + 1,
            IF qq.buf[i].priority >= qq.buf[best].priority THEN i ELSE best)

best_index_to_pop_last(qq) ==
    IF qq.count = 1 THEN 0 ELSE best_loop_last(qq, 1, 0)

best_index_to_pop(qq) ==
    IF qq.count = 1 THEN 0 ELSE best_loop(qq, 1, 0)

\* faulty variant: the memmove moves one message too few
shift_left_short(qq, idx) ==
    [i \in DOMAIN qq.buf |->
        IF i >= idx /\ i < qq.count - 2 THEN qq.buf[i + 1] ELSE qq.buf[i]]

\* memmove(&buf[idx], &buf[idx + 1], count - idx - 1): the last moved slot keeps its copy
shift_left(qq, idx) ==
    [i \in DOMAIN qq.buf |->
        IF i >= idx /\ i < qq.count - 1 THEN qq.buf[i + 1] ELSE qq.buf[i]]

\* faulty variant: the q->count-- is missing
queue_pop_nodec(qq, o) ==
    IF queue_is_empty(qq)
    THEN [rc |-> -2, q |-> qq, out |-> o]
    ELSE LET idx == best_index_to_pop(qq) IN
         [rc  |-> 0,
          out |-> qq.buf[idx],
          q   |-> [qq EXCEPT !.buf = IF idx < qq.count - 1
                                     THEN shift_left(qq, idx)
                                     ELSE qq.buf]]

\* faulty variant: `*out = q->buf[idx]` is missing, the caller's message is left as it was
queue_pop_noout(qq, o) ==
    IF queue_is_empty(qq)
    THEN [rc |-> -2, q |-> qq, out |-> o]
    ELSE LET idx == best_index_to_pop(qq) IN
         [rc  |-> 0,
          out |-> o,
          q   |-> [qq EXCEPT !.buf = IF idx < qq.count - 1
                                     THEN shift_left(qq, idx)
                                     ELSE qq.buf,
                             !.count = @ - 1]]

\* faulty variant: count is decremented twice
queue_pop_dec2(qq, o) ==
    IF queue_is_empty(qq)
    THEN [rc |-> -2, q |-> qq, out |-> o]
    ELSE LET idx == best_index_to_pop(qq) IN
         [rc  |-> 0,
          out |-> qq.buf[idx],
          q   |-> [qq EXCEPT !.buf = IF idx < qq.count - 1
                                     THEN shift_left(qq, idx)
                                     ELSE qq.buf,
                             !.count = @ - 2]]

\* faulty variant: a pop from an empty queue zeroes the caller's message
queue_pop_emptyClears(qq, o) ==
    IF queue_is_empty(qq)
    THEN [rc |-> -2, q |-> qq, out |-> ZeroMsg]
    ELSE LET idx == best_index_to_pop(qq) IN
         [rc  |-> 0,
          out |-> qq.buf[idx],
          q   |-> [qq EXCEPT !.buf = IF idx < qq.count - 1
                                     THEN shift_left(qq, idx)
                                     ELSE qq.buf,
                             !.count = @ - 1]]

\* faulty variant: the memmove is missing, the last held message is dropped instead
queue_pop_noshift(qq, o) ==
    IF queue_is_empty(qq)
    THEN [rc |-> -2, q |-> qq, out |-> o]
    ELSE LET idx == best_index_to_pop(qq) IN
         [rc  |-> 0,
          out |-> qq.buf[idx],
          q   |-> [qq EXCEPT !.count = @ - 1]]

\* faulty variant: the hole is filled with the last held message instead of a memmove
queue_pop_swaplast(qq, o) ==
    IF queue_is_empty(qq)
    THEN [rc |-> -2, q |-> qq, out |-> o]
    ELSE LET idx == best_index_to_pop(qq) IN
         [rc  |-> 0,
          out |-> qq.buf[idx],
          q   |-> [qq EXCEPT !.buf[idx] = qq.buf[qq.count - 1],
                             !.count = @ - 1]]

\* queue_pop: [rc, q, out]
queue_pop(qq, o) ==
    IF queue_is_empty(qq)
    THEN [rc |-> -2, q |-> qq, out |-> o]
    ELSE LET idx == best_index_to_pop(qq) IN
         [rc  |-> 0,
          out |-> qq.buf[idx],
          q   |-> [qq EXCEPT !.buf = IF idx < qq.count - 1
                                     THEN shift_left(qq, idx)
                                     ELSE qq.buf,
                             !.count = @ - 1]]

\* the messages held: buf[0 .. count-1] as a sequence
Held(qq) == [i \in 1..qq.count |-> qq.buf[i - 1]]

\* ------------------------------------------------------------------ sync.c

\* faulty variant: a token is also taken from a semaphore at zero
sem_can_take_offbyone(sem) == sem >= 0

\* sem_wait / sem_timedwait take a token only from a positive semaphore
sem_can_take(sem) == sem > 0

\* sem_timedwait reaches its deadline only while the semaphore stays at zero
sem_timed_out(sem) == sem = 0

\* faulty variant: the lock is taken whether or not the mutex has an owner
mutex_free_always(mx) == TRUE

\* pthread_mutex_lock returns once the mutex has no owner
mutex_free(mx) == mx = NoThread

\* ------------------------------------------------------------------ initial state

\* sync_init(capacity): items 0, slots capacity, mutex unlocked
sync_init(capacity) == [items |-> 0, slots |-> capacity, mtx |-> NoThread]

\* the state after buffer_init(C) returned 0 and main set stop_flag to 0
InitWith(Caps) ==
    /\ \E C \in Caps :
          /\ q = queue_init(C)
          /\ slots = sync_init(C).slots
          /\ items = sync_init(C).items
          /\ mtx = sync_init(C).mtx
          /\ qPrev = queue_init(C)
    /\ lastQ = "none"
    /\ stop_flag = 0
    /\ pc = [t \in Threads |-> "idle"]
    /\ op = [t \in Threads |-> "none"]
    /\ m = [t \in Threads |-> NoMsg]
    /\ out = [t \in Threads |-> ZeroMsg]
    /\ rcq = [t \in Threads |-> 0]
    /\ rc = [t \in Threads |-> 0]
    /\ putCalls = 0
    /\ nPutOK = 0
    /\ nGetOK = 0
    /\ nPushed = 0
    /\ nSlotPost = 0
    /\ fullAtCall = [t \in Threads |-> FALSE]
    /\ inserted = [s \in 0..MaxPuts |-> 0]
    /\ delivered = [s \in 0..MaxPuts |-> 0]
    /\ call = [t \in Threads |-> NoCall]
    /\ phase = "fill"
    /\ popped = <<>>
    /\ w = [t \in Threads |-> NoWorker]
    /\ mn = MainAtStart
    /\ sy = NoSync

Init == InitWith(1..MaxCap)

\* ------------------------------------------------------------------ steps shared by the operations

Goto(t, label) == pc' = [pc EXCEPT ![t] = label]

\* `return code;`
Return(t, code) ==
    /\ pc' = [pc EXCEPT ![t] = "idle"]
    /\ rc' = [rc EXCEPT ![t] = code]

\* sem_post
sem_post(sem) == sem + 1

\* the decrement of a successful sem_wait / sem_timedwait
sem_take(sem) == sem - 1

\* sync_lock(&b->s) returning 0
sync_lock(t) ==
    /\ mutex_free(mtx)
    /\ mtx' = t

\* sync_unlock(&b->s)
sync_unlock(t) == mtx' = NoThread

\* a put starts (the variables of the run are left to the caller). The caller's
\* message: the value is one of RAND_VALUE_MIN..RAND_VALUE_MAX
\* (here the ordinal of the call, so that every call's value differs), the priority is
\* the producer's fixed one; producer_thread never sets the seq field.
StartPut(t, name, first) ==
    /\ t \in Producers
    /\ pc[t] = "idle"
    /\ putCalls < MaxPuts
    /\ m' = [m EXCEPT ![t] = [value       |-> putCalls,
                              priority    |-> fixed_priority(ProducerId[t]),
                              producer_id |-> ProducerId[t]]]
    /\ op' = [op EXCEPT ![t] = name]
    /\ Goto(t, first)
    /\ putCalls' = putCalls + 1
    /\ fullAtCall' = [fullAtCall EXCEPT ![t] = (nPushed - nSlotPost = q.capacity)]
    /\ call' = [call EXCEPT ![t] = NoCall]
    /\ UNCHANGED <<sharedVars, out, rcq, rc, nPutOK, nGetOK, nPushed, nSlotPost,
                   inserted, delivered, seqVars, sy>>

StartGet(t, name, first) ==
    /\ t \in Consumers
    /\ pc[t] = "idle"
    /\ op' = [op EXCEPT ![t] = name]
    /\ Goto(t, first)
    /\ call' = [call EXCEPT ![t] = NoCall]
    /\ UNCHANGED <<sharedVars, m, out, rcq, rc, histVars, seqVars, sy>>

\* int rc = queue_push(&b->q, m);
DoPush(t, next) ==
    \E s \in CallerSeq :
    LET r == queue_push(q, [value |-> m[t].value, priority |-> m[t].priority,
                            producer_id |-> m[t].producer_id, seq |-> s]) IN
    /\ q' = r.q
    /\ rcq' = [rcq EXCEPT ![t] = r.rc]
    /\ nPushed' = IF r.rc = 0 THEN nPushed + 1 ELSE nPushed
    /\ inserted' = IF r.rc = 0
                   THEN [inserted EXCEPT ![q.next_seq] = @ + 1]
                   ELSE inserted
    /\ call' = [call EXCEPT ![t].muts = IF r.rc = 0 THEN @ + 1 ELSE @]
    /\ Goto(t, next)
    /\ UNCHANGED <<slots, items, mtx, stop_flag, op, m, out, rc, putCalls, nPutOK,
                   nGetOK, nSlotPost, fullAtCall, delivered, seqVars, sy, runVars>>

\* int rc = queue_pop(&b->q, out);
DoPop(t, next) ==
    LET r == queue_pop(q, out[t]) IN
    /\ q' = r.q
    /\ rcq' = [rcq EXCEPT ![t] = r.rc]
    /\ out' = [out EXCEPT ![t] = r.out]
    /\ call' = [call EXCEPT ![t].muts = IF r.rc = 0 THEN @ + 1 ELSE @]
    /\ Goto(t, next)
    /\ UNCHANGED <<slots, items, mtx, stop_flag, op, m, rc, histVars, seqVars, sy, runVars>>

\* faulty variant: after a failed queue_push the put posts items, not slots
FinishPut_failPostsItems(t) ==
    /\ items' = sem_post(items)
    /\ Return(t, IF rcq[t] # 0 THEN -4 ELSE 0)
    /\ call' = [call EXCEPT ![t].ditems = @ + 1, ![t].cs = -1]
    /\ nPutOK' = IF rcq[t] # 0 THEN nPutOK ELSE nPutOK + 1
    /\ m' = [m EXCEPT ![t] = NoMsg]
    /\ rcq' = [rcq EXCEPT ![t] = 0]
    /\ UNCHANGED <<q, slots, mtx, stop_flag, op, out, putCalls, nGetOK, nPushed,
                   nSlotPost, fullAtCall, inserted, delivered, seqVars, sy, runVars>>

\* faulty variant: a put that pushed returns 0 without posting items
FinishPut_noPost(t) ==
    /\ IF rcq[t] # 0
       THEN /\ slots' = sem_post(slots)
            /\ Return(t, -4)
            /\ call' = [call EXCEPT ![t].dslots = @ + 1, ![t].cs = -1]
            /\ UNCHANGED <<items, nPutOK>>
       ELSE /\ Return(t, 0)
            /\ call' = [call EXCEPT ![t].cs = -1]
            /\ nPutOK' = nPutOK + 1
            /\ UNCHANGED <<slots, items>>
    /\ m' = [m EXCEPT ![t] = NoMsg]
    /\ rcq' = [rcq EXCEPT ![t] = 0]
    /\ UNCHANGED <<q, mtx, stop_flag, op, out, putCalls, nGetOK, nPushed,
                   nSlotPost, fullAtCall, inserted, delivered, seqVars, sy, runVars>>

\* if (rc != 0) { sync_post_slots; return -4; }  sync_post_items; return 0;
FinishPut(t) ==
    /\ IF rcq[t] # 0
       THEN /\ slots' = sem_post(slots)
            /\ Return(t, -4)
            /\ call' = [call EXCEPT ![t].dslots = @ + 1, ![t].cs = -1]
            /\ UNCHANGED <<items, nPutOK>>
       ELSE /\ items' = sem_post(items)
            /\ Return(t, 0)
            /\ call' = [call EXCEPT ![t].ditems = @ + 1, ![t].cs = -1]
            /\ nPutOK' = nPutOK + 1
            /\ UNCHANGED slots
    /\ m' = [m EXCEPT ![t] = NoMsg]
    /\ rcq' = [rcq EXCEPT ![t] = 0]
    /\ UNCHANGED <<q, mtx, stop_flag, op, out, putCalls, nGetOK, nPushed,
                   nSlotPost, fullAtCall, inserted, delivered, seqVars, sy, runVars>>

\* if (rc != 0) { sync_post_items; return -4; }  sync_post_slots; return 0;
FinishGet(t) ==
    /\ IF rcq[t] # 0
       THEN /\ items' = sem_post(items)
            /\ Return(t, -4)
            /\ call' = [call EXCEPT ![t].ditems = @ + 1, ![t].cs = -1]
            /\ UNCHANGED <<slots, nGetOK, nSlotPost, fullAtCall, delivered>>
       ELSE /\ slots' = sem_post(slots)
            /\ Return(t, 0)
            /\ call' = [call EXCEPT ![t].dslots = @ + 1, ![t].cs = -1]
            /\ nGetOK' = nGetOK + 1
            /\ nSlotPost' = nSlotPost + 1
            /\ fullAtCall' = [u \in Threads |-> FALSE]
            /\ delivered' = [delivered EXCEPT ![out[t].seq] = @ + 1]
            /\ UNCHANGED items
    /\ rcq' = [rcq EXCEPT ![t] = 0]
    /\ UNCHANGED <<q, mtx, stop_flag, op, m, out, putCalls, nPutOK, nPushed,
                   inserted, seqVars, sy, runVars>>

\* a step that moves only the thread's own position
LocalStep(t, next) ==
    /\ Goto(t, next)
    /\ UNCHANGED <<sharedVars, op, m, out, rcq, rc, histVars, call, seqVars, sy, runVars>>

\* a load of stop_flag after a token was taken, and the branch on it; locked says
\* whether it is the check made after sync_lock
ReadStop(t, locked, ifSet, ifNot) ==
    /\ Goto(t, IF stop_flag # 0 THEN ifSet ELSE ifNot)
    /\ call' = [call EXCEPT ![t].saw = stop_flag,
                            ![t].cs = IF locked THEN stop_flag ELSE @]
    /\ UNCHANGED <<sharedVars, op, m, out, rcq, rc, histVars, seqVars, sy, runVars>>

\* a step that takes the mutex
LockStep(t, next) ==
    /\ sync_lock(t)
    /\ Goto(t, next)
    /\ UNCHANGED <<q, slots, items, stop_flag, op, m, out, rcq, rc, histVars, call, seqVars, sy, runVars>>

\* a step that releases the mutex
UnlockStep(t, next) ==
    /\ sync_unlock(t)
    /\ Goto(t, next)
    /\ UNCHANGED <<q, slots, items, stop_flag, op, m, out, rcq, rc, histVars, call, seqVars, sy, runVars>>

\* ------------------------------------------------------------------ buffer.c: buffer_put

CallPut(t) == t \in BlockingPut /\ StartPut(t, "put", "put_wait") /\ UNCHANGED runVars

\* if (sync_wait_slots(&b->s) != 0) return -2;
PutWaitSlots(t) ==
    /\ pc[t] = "put_wait"
    /\ sem_can_take(slots)
    /\ slots' = sem_take(slots)
    /\ call' = [call EXCEPT ![t].dslots = @ - 1, ![t].taken = @ + 1]
    /\ Goto(t, "put_lock")
    /\ UNCHANGED <<q, items, mtx, stop_flag, op, m, out, rcq, rc, histVars, seqVars, sy, runVars>>

\* if (sync_lock(&b->s) != 0) { ... }
PutLock(t) == pc[t] = "put_lock" /\ LockStep(t, "put_push")

PutPush(t) == pc[t] = "put_push" /\ DoPush(t, "put_unlock")

\* faulty variant: buffer_put posts and returns without sync_unlock
PutUnlock_noUnlock(t) == pc[t] = "put_unlock" /\ LocalStep(t, "put_finish")

PutUnlock(t) == pc[t] = "put_unlock" /\ UnlockStep(t, "put_finish")

PutFinish(t) == pc[t] = "put_finish" /\ FinishPut(t)

\* ------------------------------------------------------------------ buffer.c: buffer_get

CallGet(t) == t \in BlockingGet /\ StartGet(t, "get", "get_wait") /\ UNCHANGED runVars

\* if (sync_wait_items(&b->s) != 0) return -2;
GetWaitItems(t) ==
    /\ pc[t] = "get_wait"
    /\ sem_can_take(items)
    /\ items' = sem_take(items)
    /\ call' = [call EXCEPT ![t].ditems = @ - 1, ![t].taken = @ + 1]
    /\ Goto(t, "get_lock")
    /\ UNCHANGED <<q, slots, mtx, stop_flag, op, m, out, rcq, rc, histVars, seqVars, sy, runVars>>

GetLock(t) == pc[t] = "get_lock" /\ LockStep(t, "get_pop")

GetPop(t) == pc[t] = "get_pop" /\ DoPop(t, "get_unlock")

GetUnlock(t) == pc[t] = "get_unlock" /\ UnlockStep(t, "get_finish")

GetFinish(t) == pc[t] = "get_finish" /\ FinishGet(t)

\* ------------------------------------------------------------------ buffer.c: buffer_count

\* buffer_count is entered (the variables of the run are left to the caller)
StartCount(t) ==
    /\ pc[t] = "idle"
    /\ op' = [op EXCEPT ![t] = "count"]
    /\ Goto(t, "cnt_lock")
    /\ UNCHANGED <<sharedVars, m, out, rcq, rc, histVars, call, seqVars, sy>>

CallCount(t) == t = Main /\ StartCount(t) /\ UNCHANGED runVars

\* if (sync_lock(&b->s) != 0) return -2;
CountLock(t) == pc[t] = "cnt_lock" /\ LockStep(t, "cnt_read")

\* int c = b->q.count;
CountRead(t) ==
    /\ pc[t] = "cnt_read"
    /\ rcq' = [rcq EXCEPT ![t] = q.count]
    /\ Goto(t, "cnt_unlock")
    /\ UNCHANGED <<sharedVars, op, m, out, rc, histVars, call, seqVars, sy, runVars>>

\* if (sync_unlock(&b->s) != 0) return -3;  return c;
CountUnlock(t) ==
    /\ pc[t] = "cnt_unlock"
    /\ sync_unlock(t)
    /\ Return(t, rcq[t])
    /\ rcq' = [rcq EXCEPT ![t] = 0]
    /\ UNCHANGED <<q, slots, items, stop_flag, op, m, out, histVars, call, seqVars, sy, runVars>>

\* ------------------------------------------------------------------ buffer.c: buffer_put_interruptible

CallPutI(t) ==
    t \in PollingPut /\ StartPut(t, "put_i", "puti_chk1") /\ UNCHANGED runVars

\* faulty variant: the loop head loads stop_flag but loops whatever it holds
PutIChk1_always(t) ==
    /\ pc[t] = "puti_chk1"
    /\ Goto(t, "puti_twait")
    /\ call' = [call EXCEPT ![t].saw = stop_flag, ![t].tmo = 0]
    /\ UNCHANGED <<sharedVars, op, m, out, rcq, rc, histVars, seqVars, sy, runVars>>

\* while (atomic_load(stop_flag) == 0) { ... }  return 1;
PutIChk1(t) ==
    /\ pc[t] = "puti_chk1"
    /\ IF stop_flag = 0
       THEN Goto(t, "puti_twait") /\ UNCHANGED <<rc, m>>
       ELSE Return(t, 1) /\ m' = [m EXCEPT ![t] = NoMsg]
    /\ call' = [call EXCEPT ![t].saw = stop_flag, ![t].tmo = 0]
    /\ UNCHANGED <<sharedVars, op, out, rcq, histVars, seqVars, sy, runVars>>

\* faulty variant: a wait for a slot that timed out posts slots before looping
PutITimedWait_timeoutPosts(t) ==
    /\ pc[t] = "puti_twait"
    /\ \/ /\ sem_can_take(slots)
          /\ slots' = sem_take(slots)
          /\ call' = [call EXCEPT ![t].dslots = @ - 1, ![t].taken = @ + 1]
          /\ Goto(t, "puti_chk2")
       \/ /\ sem_timed_out(slots)
          /\ slots' = sem_post(slots)
          /\ call' = [call EXCEPT ![t].tmo = 1]
          /\ Goto(t, "puti_chk1")
    /\ UNCHANGED <<q, items, mtx, stop_flag, op, m, out, rcq, rc, histVars, seqVars, sy, runVars>>

\* int w = sync_timedwait_slots(&b->s, poll_ms);  if (w == 1) continue;
PutITimedWait(t) ==
    /\ pc[t] = "puti_twait"
    /\ \/ /\ sem_can_take(slots)
          /\ slots' = sem_take(slots)
          /\ call' = [call EXCEPT ![t].dslots = @ - 1, ![t].taken = @ + 1]
          /\ Goto(t, "puti_chk2")
       \/ /\ sem_timed_out(slots)
          /\ slots' = slots
          /\ call' = [call EXCEPT ![t].tmo = 1]
          /\ Goto(t, "puti_chk1")
    /\ UNCHANGED <<q, items, mtx, stop_flag, op, m, out, rcq, rc, histVars, seqVars, sy, runVars>>

\* if (atomic_load(stop_flag) != 0) { sync_post_slots(&b->s); return 1; }
PutIChk2(t) ==
    /\ pc[t] = "puti_chk2"
    /\ ReadStop(t, FALSE, "puti_stop_post", "puti_lock")

\* if (sync_lock(&b->s) != 0) { ... }
PutILock(t) == pc[t] = "puti_lock" /\ LockStep(t, "puti_chk3")

\* faulty variant: the stop check after the lock is missing
PutIChk3_nocheck(t) ==
    /\ pc[t] = "puti_chk3"
    /\ LocalStep(t, "puti_push")

\* if (atomic_load(stop_flag) != 0) { sync_unlock; sync_post_slots; return 1; }
PutIChk3(t) ==
    /\ pc[t] = "puti_chk3"
    /\ ReadStop(t, TRUE, "puti_stop_unlock", "puti_push")

\* faulty variant: the stop branch after the lock posts and returns without sync_unlock
PutIStopUnlock_noUnlock(t) == pc[t] = "puti_stop_unlock" /\ LocalStep(t, "puti_stop_post")

\* the sync_unlock of the stop branch after the lock
PutIStopUnlock(t) == pc[t] = "puti_stop_unlock" /\ UnlockStep(t, "puti_stop_post")

\* faulty variant: the stop branches return 1 without posting the slot back
PutIStopPost_noPost(t) ==
    /\ pc[t] = "puti_stop_post"
    /\ Return(t, 1)
    /\ m' = [m EXCEPT ![t] = NoMsg]
    /\ call' = [call EXCEPT ![t].cs = -1]
    /\ UNCHANGED <<q, slots, items, mtx, stop_flag, op, out, rcq, histVars, seqVars, sy, runVars>>

\* faulty variant: the stop branches post items instead of slots
PutIStopPost_postsItems(t) ==
    /\ pc[t] = "puti_stop_post"
    /\ items' = sem_post(items)
    /\ Return(t, 1)
    /\ m' = [m EXCEPT ![t] = NoMsg]
    /\ call' = [call EXCEPT ![t].ditems = @ + 1, ![t].cs = -1]
    /\ UNCHANGED <<q, slots, mtx, stop_flag, op, out, rcq, histVars, seqVars, sy, runVars>>

\* sync_post_slots(&b->s); return 1;   (both stop branches)
PutIStopPost(t) ==
    /\ pc[t] = "puti_stop_post"
    /\ slots' = sem_post(slots)
    /\ Return(t, 1)
    /\ m' = [m EXCEPT ![t] = NoMsg]
    /\ call' = [call EXCEPT ![t].dslots = @ + 1, ![t].cs = -1]
    /\ UNCHANGED <<q, items, mtx, stop_flag, op, out, rcq, histVars, seqVars, sy, runVars>>

PutIPush(t) == pc[t] = "puti_push" /\ DoPush(t, "puti_unlock")

\* faulty variant: buffer_put_interruptible posts and returns without sync_unlock
PutIUnlock_noUnlock(t) == pc[t] = "puti_unlock" /\ LocalStep(t, "puti_finish")

PutIUnlock(t) == pc[t] = "puti_unlock" /\ UnlockStep(t, "puti_finish")

PutIFinish(t) == pc[t] = "puti_finish" /\ FinishPut(t)

\* ------------------------------------------------------------------ buffer.c: buffer_get_interruptible

CallGetI(t) ==
    t \in PollingGet /\ StartGet(t, "get_i", "geti_chk1") /\ UNCHANGED runVars

\* faulty variant: the loop head loads stop_flag but loops whatever it holds
GetIChk1_always(t) ==
    /\ pc[t] = "geti_chk1"
    /\ Goto(t, "geti_twait")
    /\ call' = [call EXCEPT ![t].saw = stop_flag, ![t].tmo = 0]
    /\ UNCHANGED <<sharedVars, op, m, out, rcq, rc, histVars, seqVars, sy, runVars>>

\* while (atomic_load(stop_flag) == 0) { ... }  return 1;
GetIChk1(t) ==
    /\ pc[t] = "geti_chk1"
    /\ IF stop_flag = 0
       THEN Goto(t, "geti_twait") /\ UNCHANGED rc
       ELSE Return(t, 1)
    /\ call' = [call EXCEPT ![t].saw = stop_flag, ![t].tmo = 0]
    /\ UNCHANGED <<sharedVars, op, m, out, rcq, histVars, seqVars, sy, runVars>>

\* faulty variant: the wait for an item has no timeout (sem_wait)
GetITimedWait_untimed(t) ==
    /\ pc[t] = "geti_twait"
    /\ sem_can_take(items)
    /\ items' = sem_take(items)
    /\ call' = [call EXCEPT ![t].ditems = @ - 1, ![t].taken = @ + 1]
    /\ Goto(t, "geti_chk2")
    /\ UNCHANGED <<q, slots, mtx, stop_flag, op, m, out, rcq, rc, histVars, seqVars, sy, runVars>>

\* int w = sync_timedwait_items(&b->s, poll_ms);  if (w == 1) continue;
GetITimedWait(t) ==
    /\ pc[t] = "geti_twait"
    /\ \/ /\ sem_can_take(items)
          /\ items' = sem_take(items)
          /\ call' = [call EXCEPT ![t].ditems = @ - 1, ![t].taken = @ + 1]
          /\ Goto(t, "geti_chk2")
       \/ /\ sem_timed_out(items)
          /\ items' = items
          /\ call' = [call EXCEPT ![t].tmo = 1]
          /\ Goto(t, "geti_chk1")
    /\ UNCHANGED <<q, slots, mtx, stop_flag, op, m, out, rcq, rc, histVars, seqVars, sy, runVars>>

\* if (atomic_load(stop_flag) != 0) { sync_post_items(&b->s); return 1; }
GetIChk2(t) ==
    /\ pc[t] = "geti_chk2"
    /\ ReadStop(t, FALSE, "geti_stop_post", "geti_lock")

GetILock(t) == pc[t] = "geti_lock" /\ LockStep(t, "geti_chk3")

\* faulty variant: the check after the lock loads stop_flag but pops whatever it holds
GetIChk3_nocheck(t) ==
    /\ pc[t] = "geti_chk3"
    /\ Goto(t, "geti_pop")
    /\ call' = [call EXCEPT ![t].saw = stop_flag, ![t].cs = stop_flag]
    /\ UNCHANGED <<sharedVars, op, m, out, rcq, rc, histVars, seqVars, sy, runVars>>

\* if (atomic_load(stop_flag) != 0) { sync_unlock; sync_post_items; return 1; }
GetIChk3(t) ==
    /\ pc[t] = "geti_chk3"
    /\ ReadStop(t, TRUE, "geti_stop_unlock", "geti_pop")

GetIStopUnlock(t) == pc[t] = "geti_stop_unlock" /\ UnlockStep(t, "geti_stop_post")

\* faulty variant: the stop branches post slots instead of items
GetIStopPost_postsSlots(t) ==
    /\ pc[t] = "geti_stop_post"
    /\ slots' = sem_post(slots)
    /\ Return(t, 1)
    /\ call' = [call EXCEPT ![t].dslots = @ + 1, ![t].cs = -1]
    /\ UNCHANGED <<q, items, mtx, stop_flag, op, m, out, rcq, histVars, seqVars, sy, runVars>>

\* faulty variant: the stop branches return 1 without posting the item back
GetIStopPost_noPost(t) ==
    /\ pc[t] = "geti_stop_post"
    /\ Return(t, 1)
    /\ call' = [call EXCEPT ![t].cs = -1]
    /\ UNCHANGED <<q, slots, items, mtx, stop_flag, op, m, out, rcq, histVars, seqVars, sy, runVars>>

\* sync_post_items(&b->s); return 1;   (both stop branches)
GetIStopPost(t) ==
    /\ pc[t] = "geti_stop_post"
    /\ items' = sem_post(items)
    /\ Return(t, 1)
    /\ call' = [call EXCEPT ![t].ditems = @ + 1, ![t].cs = -1]
    /\ UNCHANGED <<q, slots, mtx, stop_flag, op, m, out, rcq, histVars, seqVars, sy, runVars>>

GetIPop(t) == pc[t] = "geti_pop" /\ DoPop(t, "geti_unlock")

GetIUnlock(t) == pc[t] = "geti_unlock" /\ UnlockStep(t, "geti_finish")

GetIFinish(t) == pc[t] = "geti_finish" /\ FinishGet(t)

\* ------------------------------------------------------------------ main.c: the stop flag

\* atomic_store(&stop_flag, 1);
SetStop ==
    /\ pc[Main] = "idle"
    /\ stop_flag = 0
    /\ stop_flag' = 1
    /\ UNCHANGED <<q, slots, items, mtx, pc, op, m, out, rcq, rc, histVars, call, seqVars, sy, runVars>>

\* ------------------------------------------------------------------ threads on one buffer

Next ==
    \/ SetStop
    \/ \E t \in Threads :
          \/ CallPut(t)  \/ PutWaitSlots(t) \/ PutLock(t) \/ PutPush(t)
          \/ PutUnlock(t) \/ PutFinish(t)
          \/ CallGet(t)  \/ GetWaitItems(t) \/ GetLock(t) \/ GetPop(t)
          \/ GetUnlock(t) \/ GetFinish(t)
          \/ CallCount(t) \/ CountLock(t) \/ CountRead(t) \/ CountUnlock(t)
          \/ CallPutI(t) \/ PutIChk1(t) \/ PutITimedWait(t) \/ PutIChk2(t)
          \/ PutILock(t) \/ PutIChk3(t) \/ PutIStopUnlock(t) \/ PutIStopPost(t)
          \/ PutIPush(t) \/ PutIUnlock(t) \/ PutIFinish(t)
          \/ CallGetI(t) \/ GetIChk1(t) \/ GetITimedWait(t) \/ GetIChk2(t)
          \/ GetILock(t) \/ GetIChk3(t) \/ GetIStopUnlock(t) \/ GetIStopPost(t)
          \/ GetIPop(t) \/ GetIUnlock(t) \/ GetIFinish(t)

Spec == Init /\ [][Next]_vars

\* ------------------------------------------------------------------ blocking put and get in loops

\* One producer that calls buffer_put again and again, one consumer that calls
\* buffer_get again and again, and main calling buffer_count; no call fails and
\* stop_flag plays no part.
LoopProducers == BlockingPut
LoopConsumers == BlockingGet
LoopThreads   == LoopProducers \cup LoopConsumers

NextBlocking ==
    \E t \in LoopThreads \cup {Main} :
        \/ CallPut(t)  \/ PutWaitSlots(t) \/ PutLock(t) \/ PutPush(t)
        \/ PutUnlock(t) \/ PutFinish(t)
        \/ CallGet(t)  \/ GetWaitItems(t) \/ GetLock(t) \/ GetPop(t)
        \/ GetUnlock(t) \/ GetFinish(t)
        \/ CallCount(t) \/ CountLock(t) \/ CountRead(t) \/ CountUnlock(t)

SpecBlocking == Init /\ [][NextBlocking]_vars

\* ------------------------------------------------------------------ failing primitives

\* One producer and one consumer that use both forms of put and get, and main; any
\* sem_wait, sem_timedwait or pthread_mutex_lock may return an error instead of
\* blocking or succeeding, and so may queue_push and queue_pop. pthread_mutex_unlock on the mutex the caller owns succeeds.
FaultProducer == "p1"
FaultConsumer == "c1"
FaultThreads  == {FaultProducer, FaultConsumer, Main}

CallAnyPut(t) ==
    /\ t = FaultProducer
    /\ \/ StartPut(t, "put", "put_wait")
       \/ StartPut(t, "put_i", "puti_chk1")
    /\ UNCHANGED runVars

CallAnyGet(t) ==
    /\ t = FaultConsumer
    /\ \/ StartGet(t, "get", "get_wait")
       \/ StartGet(t, "get_i", "geti_chk1")
    /\ UNCHANGED runVars

\* a wait that failed: `return -2;` with no token taken
WaitFail(t) ==
    /\ Return(t, -2)
    /\ m' = [m EXCEPT ![t] = NoMsg]
    /\ UNCHANGED <<sharedVars, op, out, rcq, histVars, call, seqVars, sy, runVars>>

\* if (sync_wait_slots(&b->s) != 0) return -2;
PutWaitFail(t) == pc[t] = "put_wait" /\ WaitFail(t)

\* if (sync_wait_items(&b->s) != 0) return -2;
GetWaitFail(t) == pc[t] = "get_wait" /\ WaitFail(t)

\* faulty variant: the error return of the timed wait posts slots first
PutITimedWaitFail_postsSlots(t) ==
    /\ pc[t] = "puti_twait"
    /\ slots' = sem_post(slots)
    /\ Return(t, -2)
    /\ m' = [m EXCEPT ![t] = NoMsg]
    /\ call' = [call EXCEPT ![t].dslots = @ + 1]
    /\ UNCHANGED <<q, items, mtx, stop_flag, op, out, rcq, histVars, seqVars, sy, runVars>>

\* if (w != 0) return -2;   (w is neither 0 nor 1)
PutITimedWaitFail(t) == pc[t] = "puti_twait" /\ WaitFail(t)

GetITimedWaitFail(t) == pc[t] = "geti_twait" /\ WaitFail(t)

\* faulty variant: a put whose sync_lock failed posts items instead of slots
PutLockFail_postsItems(t) ==
    /\ pc[t] \in {"put_lock", "puti_lock"}
    /\ items' = sem_post(items)
    /\ Return(t, -3)
    /\ m' = [m EXCEPT ![t] = NoMsg]
    /\ call' = [call EXCEPT ![t].ditems = @ + 1]
    /\ UNCHANGED <<q, slots, mtx, stop_flag, op, out, rcq, histVars, seqVars, sy, runVars>>

\* if (sync_lock(&b->s) != 0) { sync_post_slots(&b->s); return -3; }
PutLockFail(t) ==
    /\ pc[t] \in {"put_lock", "puti_lock"}
    /\ slots' = sem_post(slots)
    /\ Return(t, -3)
    /\ m' = [m EXCEPT ![t] = NoMsg]
    /\ call' = [call EXCEPT ![t].dslots = @ + 1]
    /\ UNCHANGED <<q, items, mtx, stop_flag, op, out, rcq, histVars, seqVars, sy, runVars>>

\* faulty variant: a get whose sync_lock failed returns -3 without posting items
GetLockFail_noPost(t) ==
    /\ pc[t] \in {"get_lock", "geti_lock"}
    /\ Return(t, -3)
    /\ UNCHANGED <<sharedVars, op, m, out, rcq, histVars, call, seqVars, sy, runVars>>

\* if (sync_lock(&b->s) != 0) { sync_post_items(&b->s); return -3; }
GetLockFail(t) ==
    /\ pc[t] \in {"get_lock", "geti_lock"}
    /\ items' = sem_post(items)
    /\ Return(t, -3)
    /\ call' = [call EXCEPT ![t].ditems = @ + 1]
    /\ UNCHANGED <<q, slots, mtx, stop_flag, op, m, out, rcq, histVars, seqVars, sy, runVars>>

\* buffer_count: if (sync_lock(&b->s) != 0) return -2;
CountLockFail(t) ==
    /\ pc[t] = "cnt_lock"
    /\ Return(t, -2)
    /\ UNCHANGED <<sharedVars, op, m, out, rcq, histVars, call, seqVars, sy, runVars>>

\* rc = queue_push(&b->q, m) / queue_pop(&b->q, out) returning an error to a caller
\* that holds a token: -1 (no array) or -2 (full / empty), the queue and *out as they
\* were. While slots and items agree with count this cannot happen; buffer.c handles
\* it all the same, so it is injected here like the failures of the primitives.
ContainerFail(t, next) ==
    /\ \E e \in {-1, -2} : rcq' = [rcq EXCEPT ![t] = e]
    /\ Goto(t, next)
    /\ UNCHANGED <<sharedVars, op, m, out, rc, histVars, call, seqVars, sy, runVars>>

PushFail(t) ==
    /\ pc[t] \in {"put_push", "puti_push"}
    /\ ContainerFail(t, IF pc[t] = "put_push" THEN "put_unlock" ELSE "puti_unlock")

PopFail(t) ==
    /\ pc[t] \in {"get_pop", "geti_pop"}
    /\ ContainerFail(t, IF pc[t] = "get_pop" THEN "get_unlock" ELSE "geti_unlock")

NextFault ==
    \/ SetStop
    \/ \E t \in FaultThreads :
          \/ CallAnyPut(t) \/ CallAnyGet(t) \/ CallCount(t)
          \/ PutWaitSlots(t) \/ PutLock(t) \/ PutPush(t) \/ PutUnlock(t) \/ PutFinish(t)
          \/ GetWaitItems(t) \/ GetLock(t) \/ GetPop(t) \/ GetUnlock(t) \/ GetFinish(t)
          \/ CountLock(t) \/ CountRead(t) \/ CountUnlock(t)
          \/ PutIChk1(t) \/ PutITimedWait(t) \/ PutIChk2(t) \/ PutILock(t)
          \/ PutIChk3(t) \/ PutIStopUnlock(t) \/ PutIStopPost(t)
          \/ PutIPush(t) \/ PutIUnlock(t) \/ PutIFinish(t)
          \/ GetIChk1(t) \/ GetITimedWait(t) \/ GetIChk2(t) \/ GetILock(t)
          \/ GetIChk3(t) \/ GetIStopUnlock(t) \/ GetIStopPost(t)
          \/ GetIPop(t) \/ GetIUnlock(t) \/ GetIFinish(t)
          \/ PutWaitFail(t) \/ GetWaitFail(t) \/ PutITimedWaitFail(t)
          \/ GetITimedWaitFail(t) \/ PutLockFail(t) \/ GetLockFail(t)
          \/ CountLockFail(t) \/ PushFail(t) \/ PopFail(t)

SpecFault == Init /\ [][NextFault]_vars

\* ------------------------------------------------------------------ main.c and workers.c

\* One run of main from logger_init on, with -p 1 -c 1: producer_thread runs in p2
\* and consumer_thread in c2. logger_init and each pthread_create may fail.
RunProducers == <<"p2">>
RunConsumers == <<"c2">>
RunWorkers   == {RunProducers[i] : i \in DOMAIN RunProducers}
                   \cup {RunConsumers[i] : i \in DOMAIN RunConsumers}
RunThreads   == RunWorkers \cup {Main}

\* the threads main has created, in the order it joins them
StartedThreads ==
    SubSeq(RunProducers, 1, mn.started_producers)
        \o SubSeq(RunConsumers, 1, mn.started_consumers)

MainGoto(label) == mn' = [mn EXCEPT !.at = label]

WorkerGoto(t, label) == w' = [w EXCEPT ![t].at = label]

\* atomic_store(&stop_flag, 1) by main. `early` records that no worker had yet
\* called an interruptible put or get.
StoreStop ==
    /\ stop_flag' = 1
    /\ UNCHANGED <<q, slots, items, mtx>>

StoreStopNote(rec) ==
    [rec EXCEPT !.stores = @ + 1,
                !.early  = \A t \in RunWorkers : ~w[t].called]

\* lrc = logger_init(...): on failure goto cleanup with buf_ok = 1 and lg_ok = 0
MainLoggerInit ==
    /\ mn.at = "logger_init"
    /\ \/ mn' = [mn EXCEPT !.at = "create_p", !.lg_ok = TRUE]
       \/ MainGoto("cleanup")
    /\ UNCHANGED <<sharedVars, pc, op, m, out, rcq, rc, histVars, call, seqVars, sy, w>>

\* one pass of `for (int i = 0; i < params.producers; i++)`: pthread_create
\* succeeds and the thread exists, or fails and main stores 1 to stop_flag
MainCreateProducer ==
    /\ mn.at = "create_p"
    /\ mn.i < Len(RunProducers)
    /\ \/ /\ w' = [w EXCEPT ![RunProducers[mn.i + 1]] = [NoWorker EXCEPT !.at = "start"]]
          /\ mn' = [mn EXCEPT !.started_producers = @ + 1,
                              !.i  = IF mn.i + 1 < Len(RunProducers) THEN mn.i + 1 ELSE 0,
                              !.at = IF mn.i + 1 < Len(RunProducers)
                                     THEN "create_p" ELSE "create_c"]
          /\ UNCHANGED sharedVars
       \/ /\ StoreStop
          /\ mn' = [StoreStopNote(mn) EXCEPT !.start_failed = TRUE, !.i = 0,
                                             !.at = "stop_log"]
          /\ UNCHANGED w
    /\ UNCHANGED <<pc, op, m, out, rcq, rc, histVars, call, seqVars, sy>>

\* faulty variant: a failed pthread_create of a consumer does not store to stop_flag
MainCreateConsumer_noStore ==
    /\ mn.at = "create_c"
    /\ mn.i < Len(RunConsumers)
    /\ \/ /\ w' = [w EXCEPT ![RunConsumers[mn.i + 1]] = [NoWorker EXCEPT !.at = "start"]]
          /\ mn' = [mn EXCEPT !.started_consumers = @ + 1,
                              !.i  = IF mn.i + 1 < Len(RunConsumers) THEN mn.i + 1 ELSE 0,
                              !.at = IF mn.i + 1 < Len(RunConsumers)
                                     THEN "create_c" ELSE "timeout"]
       \/ /\ mn' = [mn EXCEPT !.start_failed = TRUE, !.i = 0, !.at = "stop_log"]
          /\ UNCHANGED w
    /\ UNCHANGED <<sharedVars, pc, op, m, out, rcq, rc, histVars, call, seqVars, sy>>

\* one pass of `for (int i = 0; i < params.consumers; i++)` (start_failed is 0 here)
MainCreateConsumer ==
    /\ mn.at = "create_c"
    /\ mn.i < Len(RunConsumers)
    /\ \/ /\ w' = [w EXCEPT ![RunConsumers[mn.i + 1]] = [NoWorker EXCEPT !.at = "start"]]
          /\ mn' = [mn EXCEPT !.started_consumers = @ + 1,
                              !.i  = IF mn.i + 1 < Len(RunConsumers) THEN mn.i + 1 ELSE 0,
                              !.at = IF mn.i + 1 < Len(RunConsumers)
                                     THEN "create_c" ELSE "timeout"]
          /\ UNCHANGED sharedVars
       \/ /\ StoreStop
          /\ mn' = [StoreStopNote(mn) EXCEPT !.start_failed = TRUE, !.i = 0,
                                             !.at = "stop_log"]
          /\ UNCHANGED w
    /\ UNCHANGED <<pc, op, m, out, rcq, rc, histVars, call, seqVars, sy>>

\* faulty variant: main goes on after the sleep without storing to stop_flag
MainTimeout_noStore ==
    /\ mn.at = "timeout"
    /\ mn' = [mn EXCEPT !.slept = TRUE, !.at = "stop_log"]
    /\ UNCHANGED <<sharedVars, pc, op, m, out, rcq, rc, histVars, call, seqVars, sy, w>>

\* sleep(timeout_sec) returns; atomic_store(&stop_flag, 1)
MainTimeout ==
    /\ mn.at = "timeout"
    /\ StoreStop
    /\ mn' = [StoreStopNote(mn) EXCEPT !.slept = TRUE, !.at = "stop_log"]
    /\ UNCHANGED <<pc, op, m, out, rcq, rc, histVars, call, seqVars, sy, w>>

\* int qcount = buffer_count(&buf) of STOP_SET_TIMEOUT / STOP_SET_INIT_FAIL
MainStopCount ==
    /\ mn.at = "stop_log"
    /\ StartCount(Main)
    /\ MainGoto("join")
    /\ UNCHANGED w

\* faulty variant: the join does not wait for the thread to return
MainJoin_noWait ==
    /\ mn.at = "join"
    /\ pc[Main] = "idle"
    /\ mn.i < Len(StartedThreads)
    /\ mn' = [mn EXCEPT !.joined = @ \cup {StartedThreads[mn.i + 1]}, !.i = @ + 1]
    /\ UNCHANGED <<sharedVars, pc, op, m, out, rcq, rc, histVars, call, seqVars, sy, w>>

\* pthread_join of the next started thread returns once that thread has returned
MainJoin ==
    /\ mn.at = "join"
    /\ pc[Main] = "idle"
    /\ mn.i < Len(StartedThreads)
    /\ w[StartedThreads[mn.i + 1]].at = "done"
    /\ mn' = [mn EXCEPT !.joined = @ \cup {StartedThreads[mn.i + 1]}, !.i = @ + 1]
    /\ UNCHANGED <<sharedVars, pc, op, m, out, rcq, rc, histVars, call, seqVars, sy, w>>

\* faulty variant: the statistics loops run before the joins
MainAggregate_beforeJoin ==
    /\ mn.at = "join"
    /\ pc[Main] = "idle"
    /\ StartCount(Main)
    /\ mn' = [mn EXCEPT
                !.prod_ops = IF mn.started_producers > 0 THEN w[RunProducers[1]].ops ELSE 0,
                !.cons_ops = IF mn.started_consumers > 0 THEN w[RunConsumers[1]].ops ELSE 0,
                !.at = "end_q"]
    /\ UNCHANGED w

\* the two statistics loops, then int qcount_end = buffer_count(&buf)
MainAggregate ==
    /\ mn.at = "join"
    /\ pc[Main] = "idle"
    /\ mn.i = Len(StartedThreads)
    /\ StartCount(Main)
    /\ mn' = [mn EXCEPT
                !.prod_ops = IF mn.started_producers > 0 THEN w[RunProducers[1]].ops ELSE 0,
                !.cons_ops = IF mn.started_consumers > 0 THEN w[RunConsumers[1]].ops ELSE 0,
                !.at = "end_q"]
    /\ UNCHANGED w

\* logger_log(..., "RUN_END", ...) with the count just read;
\* exit_code = start_failed ? EXIT_FAILURE : EXIT_SUCCESS
MainRunEnd ==
    /\ mn.at = "end_q"
    /\ pc[Main] = "idle"
    /\ mn' = [mn EXCEPT !.run_end = TRUE,
                        !.exit_code = IF mn.start_failed THEN EXIT_FAILURE ELSE EXIT_SUCCESS,
                        !.at = "cleanup"]
    /\ UNCHANGED <<sharedVars, pc, op, m, out, rcq, rc, histVars, call, seqVars, sy, w>>

\* cleanup: logger_close if lg_ok; buffer_destroy (buf_ok is 1); return
MainCleanup ==
    /\ mn.at = "cleanup"
    /\ mn' = [mn EXCEPT !.destroyed = TRUE, !.at = "returned"]
    /\ UNCHANGED <<sharedVars, pc, op, m, out, rcq, rc, histVars, call, seqVars, sy, w>>

\* the safe_qcount of P_START / C_START
WorkerStart(t) ==
    /\ w[t].at = "start"
    /\ StartCount(t)
    /\ WorkerGoto(t, "start_q")
    /\ UNCHANGED mn

\* while (atomic_load(a->stop_flag) == 0), reached from the START block or from
\* the end of the loop body
WorkerLoop(t) ==
    /\ w[t].at \in {"start_q", "loop"}
    /\ pc[t] = "idle"
    /\ WorkerGoto(t, IF stop_flag = 0 THEN "body" ELSE "exit")
    /\ UNCHANGED <<sharedVars, pc, op, m, out, rcq, rc, histVars, call, seqVars, sy, mn>>

\* producer_thread builds m and calls buffer_put_interruptible, consumer_thread calls
\* buffer_get_interruptible; `entry` is stop_flag as the call is made
WorkerCall(t) ==
    /\ w[t].at = "body"
    /\ IF t \in Producers
       THEN StartPut(t, "put_i", "puti_chk1")
       ELSE StartGet(t, "get_i", "geti_chk1")
    /\ w' = [w EXCEPT ![t].at = "call", ![t].entry = stop_flag, ![t].called = TRUE]
    /\ UNCHANGED mn

\* the call has returned rc: 0 and any error read the count with safe_qcount, 1 breaks
WorkerAfterCall(t) ==
    /\ w[t].at = "call"
    /\ pc[t] = "idle"
    /\ IF rc[t] = 1
       THEN /\ w' = [w EXCEPT ![t].rc = rc[t], ![t].at = "exit"]
            /\ UNCHANGED <<sharedVars, pc, op, m, out, rcq, rc, histVars, call, seqVars, sy>>
       ELSE /\ StartCount(t)
            /\ w' = [w EXCEPT ![t].rc = rc[t],
                              ![t].at = IF rc[t] = 0 THEN "ok_q" ELSE "err_q"]
    /\ UNCHANGED mn

\* faulty variant: after logging the error the worker goes on to sleep and loops
WorkerAfterCount_errorLoops(t) ==
    /\ w[t].at \in {"ok_q", "err_q"}
    /\ pc[t] = "idle"
    /\ w' = IF w[t].at = "ok_q"
            THEN [w EXCEPT ![t].ops = @ + 1,
                           ![t].max_q = IF rc[t] > @ THEN rc[t] ELSE @,
                           ![t].at = "sleep"]
            ELSE [w EXCEPT ![t].errors = @ + 1, ![t].at = "sleep"]
    /\ UNCHANGED <<sharedVars, pc, op, m, out, rcq, rc, histVars, call, seqVars, sy, mn>>

\* faulty variant: the error block counts the failed call as an operation
WorkerAfterCount_errorCounts(t) ==
    /\ w[t].at \in {"ok_q", "err_q"}
    /\ pc[t] = "idle"
    /\ w' = IF w[t].at = "ok_q"
            THEN [w EXCEPT ![t].ops = @ + 1,
                           ![t].max_q = IF rc[t] > @ THEN rc[t] ELSE @,
                           ![t].at = "sleep"]
            ELSE [w EXCEPT ![t].ops = @ + 1, ![t].errors = @ + 1, ![t].at = "exit"]
    /\ UNCHANGED <<sharedVars, pc, op, m, out, rcq, rc, histVars, call, seqVars, sy, mn>>

\* after the count: rc == 0 logs the event and updates a->ops and a->max_q and goes
\* on to sleep; an error logs P_ERROR / C_ERROR and breaks
WorkerAfterCount(t) ==
    /\ w[t].at \in {"ok_q", "err_q"}
    /\ pc[t] = "idle"
    /\ w' = IF w[t].at = "ok_q"
            THEN [w EXCEPT ![t].ops = @ + 1,
                           ![t].max_q = IF rc[t] > @ THEN rc[t] ELSE @,
                           ![t].at = "sleep"]
            ELSE [w EXCEPT ![t].errors = @ + 1, ![t].at = "exit"]
    /\ UNCHANGED <<sharedVars, pc, op, m, out, rcq, rc, histVars, call, seqVars, sy, mn>>

\* sleep_interruptible_ms returns: the time is up, or it loaded stop_flag as set.
\* The producer's time is up only while the run has put calls left.
WorkerSleep(t) ==
    /\ w[t].at = "sleep"
    /\ stop_flag # 0 \/ t \in Consumers \/ putCalls < MaxPuts
    /\ WorkerGoto(t, "loop")
    /\ UNCHANGED <<sharedVars, pc, op, m, out, rcq, rc, histVars, call, seqVars, sy, mn>>

\* the safe_qcount of P_EXIT / C_EXIT
WorkerExit(t) ==
    /\ w[t].at = "exit"
    /\ StartCount(t)
    /\ WorkerGoto(t, "exit_q")
    /\ UNCHANGED mn

\* log_evt(..., "P_EXIT" / "C_EXIT", ...); return NULL;
WorkerReturn(t) ==
    /\ w[t].at = "exit_q"
    /\ pc[t] = "idle"
    /\ w' = [w EXCEPT ![t].exits = @ + 1, ![t].at = "done"]
    /\ UNCHANGED <<sharedVars, pc, op, m, out, rcq, rc, histVars, call, seqVars, sy, mn>>

\* a step inside buffer_count, buffer_put_interruptible or buffer_get_interruptible
BufferStep(t) ==
    \/ CountLock(t) \/ CountRead(t) \/ CountUnlock(t)
    \/ PutIChk1(t) \/ PutITimedWait(t) \/ PutIChk2(t) \/ PutILock(t)
    \/ PutIChk3(t) \/ PutIStopUnlock(t) \/ PutIStopPost(t)
    \/ PutIPush(t) \/ PutIUnlock(t) \/ PutIFinish(t)
    \/ GetIChk1(t) \/ GetITimedWait(t) \/ GetIChk2(t) \/ GetILock(t)
    \/ GetIChk3(t) \/ GetIStopUnlock(t) \/ GetIStopPost(t)
    \/ GetIPop(t) \/ GetIUnlock(t) \/ GetIFinish(t)

MainStep ==
    \/ MainLoggerInit \/ MainCreateProducer \/ MainCreateConsumer \/ MainTimeout
    \/ MainStopCount \/ MainJoin \/ MainAggregate \/ MainRunEnd \/ MainCleanup

\* a step of producer_thread / consumer_thread outside sleep_interruptible_ms
WorkerRunStep(t) ==
    \/ WorkerStart(t) \/ WorkerLoop(t) \/ WorkerCall(t) \/ WorkerAfterCall(t)
    \/ WorkerAfterCount(t) \/ WorkerExit(t) \/ WorkerReturn(t)

WorkerStep(t) == WorkerRunStep(t) \/ WorkerSleep(t)

NextRun ==
    \/ MainStep
    \/ \E t \in RunWorkers : WorkerStep(t)
    \/ \E t \in RunThreads : BufferStep(t)

SpecRun == Init /\ [][NextRun]_vars

\* every thread that can take a step of its own eventually takes one
RunFairness ==
    /\ WF_vars(MainStep \/ BufferStep(Main))
    /\ \A t \in RunWorkers : WF_vars(WorkerStep(t) \/ BufferStep(t))

SpecRunLive == SpecRun /\ RunFairness

\* the steps of main other than the return of sleep(timeout_sec)
MainPromptStep ==
    \/ MainLoggerInit \/ MainCreateProducer \/ MainCreateConsumer
    \/ MainStopCount \/ MainJoin \/ MainAggregate \/ MainRunEnd \/ MainCleanup

\* every worker that can take a step eventually takes one, and so does main, except
\* that its sleep(timeout_sec) may last for ever
ProgressFairness ==
    /\ WF_vars(MainPromptStep \/ BufferStep(Main))
    /\ \A t \in RunWorkers : WF_vars(WorkerStep(t) \/ BufferStep(t))

SpecRunProgress == SpecRun /\ ProgressFairness

\* the run with failing primitives: inside a worker's interruptible call the timed
\* wait, the sync_lock, the queue_push or the queue_pop may return an error
RunFaultStep(t) ==
    \/ PutITimedWaitFail(t) \/ GetITimedWaitFail(t)
    \/ PutLockFail(t) \/ GetLockFail(t)
    \/ PushFail(t) \/ PopFail(t)

NextRunFault ==
    \/ NextRun
    \/ \E t \in RunWorkers : RunFaultStep(t)

SpecRunFault == Init /\ [][NextRunFault]_vars

\* ------------------------------------------------------------------ util.c: sleep_interruptible_ms

\* The run with the sleep between two operations taken statement by statement.
\* total_ms is wait_s * 1000 with wait_s from 0 (PRODUCER_WAIT_MIN_SEC,
\* CONSUMER_WAIT_MIN_SEC) up; poll_ms is the workers' poll_ms; both in ticks.
SleepTotals == 0..MaxSleep

SleepLabels == {"sleep_chk", "sleep_chunk"}

\* the return of sleep_interruptible_ms to the end of the loop body. As in WorkerSleep,
\* the producer's time is up only while the run has put calls left.
SleepReturn(t) ==
    /\ stop_flag # 0 \/ t \in Consumers \/ putCalls < MaxPuts
    /\ w' = [w EXCEPT ![t].at = "loop", ![t].total = 0, ![t].remaining = 0,
                      ![t].chunk = 0, ![t].slept = 0, ![t].late = 0]

\* sleep_interruptible_ms(a->stop_flag, wait_s * 1000, a->poll_ms):
\* if (total_ms <= 0) return;  int remaining = total_ms;
SleepEnter(t) ==
    /\ w[t].at = "sleep"
    /\ \E tot \in SleepTotals :
          IF tot <= 0
          THEN SleepReturn(t)
          ELSE w' = [w EXCEPT ![t].at = "sleep_chk", ![t].total = tot,
                              ![t].remaining = tot]
    /\ UNCHANGED <<sharedVars, pc, op, m, out, rcq, rc, histVars, call, seqVars, sy, mn>>

\* faulty variant: the loop tests only `remaining > 0`
SleepCheck_noLoad(t) ==
    /\ w[t].at = "sleep_chk"
    /\ IF w[t].remaining > 0
       THEN w' = [w EXCEPT ![t].at = "sleep_chunk",
                           ![t].chunk = IF w[t].remaining < PollTicks
                                        THEN w[t].remaining ELSE PollTicks]
       ELSE SleepReturn(t)
    /\ UNCHANGED <<sharedVars, pc, op, m, out, rcq, rc, histVars, call, seqVars, sy, mn>>

\* while (remaining > 0 && atomic_load(stop_flag) == 0) {
\*     int chunk = (remaining < poll_ms) ? remaining : poll_ms;
SleepCheck(t) ==
    /\ w[t].at = "sleep_chk"
    /\ IF w[t].remaining > 0 /\ stop_flag = 0
       THEN w' = [w EXCEPT ![t].at = "sleep_chunk",
                           ![t].chunk = IF w[t].remaining < PollTicks
                                        THEN w[t].remaining ELSE PollTicks]
       ELSE SleepReturn(t)
    /\ UNCHANGED <<sharedVars, pc, op, m, out, rcq, rc, histVars, call, seqVars, sy, mn>>

\* sleep_ms(chunk);  remaining -= chunk;
SleepChunk(t) ==
    /\ w[t].at = "sleep_chunk"
    /\ w' = [w EXCEPT ![t].at = "sleep_chk",
                      ![t].remaining = @ - w[t].chunk,
                      ![t].slept = @ + w[t].chunk,
                      ![t].late = IF stop_flag # 0 THEN @ + 1 ELSE @]
    /\ UNCHANGED <<sharedVars, pc, op, m, out, rcq, rc, histVars, call, seqVars, sy, mn>>

WorkerSleepStep(t) == SleepEnter(t) \/ SleepCheck(t) \/ SleepChunk(t)

NextRunSleep ==
    \/ MainStep
    \/ \E t \in RunWorkers : WorkerRunStep(t) \/ WorkerSleepStep(t)
    \/ \E t \in RunThreads : BufferStep(t)

SpecRunSleep == Init /\ [][NextRunSleep]_vars

\* ------------------------------------------------------------------ sync.c driven by one caller

\* One thread calls sync_wait_items / sync_wait_slots / sync_timedwait_items /
\* sync_timedwait_slots while other threads post the two semaphores and the clock
\* advances. A sem_wait or sem_timedwait that has to block may be interrupted by a
\* signal (-1, errno EINTR); either may fail with another errno; clock_gettime may fail.
\* Time is counted in ticks; ts is the absolute deadline add_ms_to_timespec computes.
SyncSems == {"items", "slots"}

SemValue(s) == IF s = "items" THEN items ELSE slots

SemSet(s, v) ==
    IF s = "items" THEN items' = v /\ slots' = slots
                   ELSE slots' = v /\ items' = items

bufferVars == <<q, mtx, stop_flag, pc, op, m, out, rcq, rc, histVars, call, seqVars, runVars>>

\* sync_wait_items(s) / sync_wait_slots(s): sem_wait_retry is entered
SyncWait ==
    /\ sy.at = "idle"
    /\ \E s \in SyncSems :
          sy' = [NoSync EXCEPT !.at = "sem_wait", !.fn = "wait", !.sem = s,
                               !.now = sy.now]
    /\ UNCHANGED <<slots, items, bufferVars>>

\* sync_timedwait_items(s, ms) / sync_timedwait_slots(s, ms): sem_timedwait_retry is entered
SyncTimedWait ==
    /\ sy.at = "idle"
    /\ \E s \in SyncSems :
          sy' = [NoSync EXCEPT !.at = "clock_gettime", !.fn = "timedwait", !.sem = s,
                               !.now = sy.now]
    /\ UNCHANGED <<slots, items, bufferVars>>

\* rc = sem_wait(sem): the token, or -1 with errno EINTR while it blocks, or -1 with
\* another errno
SemWaitCall ==
    /\ sy.at = "sem_wait"
    /\ \/ /\ sem_can_take(SemValue(sy.sem))
          /\ SemSet(sy.sem, sem_take(SemValue(sy.sem)))
          /\ sy' = [sy EXCEPT !.rc = 0, !.took = @ + 1, !.at = "sem_wait_test"]
       \/ /\ ~sem_can_take(SemValue(sy.sem))
          /\ sy.eintr < MaxEintr
          /\ sy' = [sy EXCEPT !.rc = -1, !.errno = "EINTR", !.eintr = @ + 1,
                              !.at = "sem_wait_test"]
          /\ UNCHANGED <<slots, items>>
       \/ /\ sy' = [sy EXCEPT !.rc = -1, !.errno = "EINVAL", !.at = "sem_wait_test"]
          /\ UNCHANGED <<slots, items>>
    /\ UNCHANGED bufferVars

\* faulty variant: the do-while does not test errno, an interrupted sem_wait is returned
SemWaitTest_noRetry ==
    /\ sy.at = "sem_wait_test"
    /\ sy' = [sy EXCEPT !.at = "idle", !.ret = sy.rc]
    /\ UNCHANGED <<slots, items, bufferVars>>

\* do { ... } while (rc == -1 && errno == EINTR);  return rc;
SemWaitTest ==
    /\ sy.at = "sem_wait_test"
    /\ sy' = IF sy.rc = -1 /\ sy.errno = "EINTR"
             THEN [sy EXCEPT !.at = "sem_wait"]
             ELSE [sy EXCEPT !.at = "idle", !.ret = sy.rc]
    /\ UNCHANGED <<slots, items, bufferVars>>

\* if (clock_gettime(CLOCK_REALTIME, &ts) != 0) return -2;  add_ms_to_timespec(&ts, timeout_ms);
ClockGettime ==
    /\ sy.at = "clock_gettime"
    /\ \/ sy' = [sy EXCEPT !.at = "idle", !.ret = -2]
       \/ sy' = [sy EXCEPT !.ts = sy.now + PollTicks, !.t0 = sy.now,
                           !.at = "sem_timedwait"]
    /\ UNCHANGED <<slots, items, bufferVars>>

\* rc = sem_timedwait(sem, &ts): the token; or -1 with errno ETIMEDOUT when the
\* semaphore is 0 and the clock has reached ts; or -1 with errno EINTR while it blocks;
\* or -1 with another errno
SemTimedwaitCall ==
    /\ sy.at = "sem_timedwait"
    /\ \/ /\ sem_can_take(SemValue(sy.sem))
          /\ SemSet(sy.sem, sem_take(SemValue(sy.sem)))
          /\ sy' = [sy EXCEPT !.rc = 0, !.took = @ + 1, !.at = "sem_timedwait_test"]
       \/ /\ sem_timed_out(SemValue(sy.sem))
          /\ sy.now >= sy.ts
          /\ sy' = [sy EXCEPT !.rc = -1, !.errno = "ETIMEDOUT",
                              !.at = "sem_timedwait_test"]
          /\ UNCHANGED <<slots, items>>
       \/ /\ ~sem_can_take(SemValue(sy.sem))
          /\ sy.now < sy.ts
          /\ sy.eintr < MaxEintr
          /\ sy' = [sy EXCEPT !.rc = -1, !.errno = "EINTR", !.eintr = @ + 1,
                              !.at = "sem_timedwait_test"]
          /\ UNCHANGED <<slots, items>>
       \/ /\ sy' = [sy EXCEPT !.rc = -1, !.errno = "EINVAL", !.at = "sem_timedwait_test"]
          /\ UNCHANGED <<slots, items>>
    /\ UNCHANGED bufferVars

\* do { ... } while (rc == -1 && errno == EINTR);
\* if (rc == 0) return 0;  if (errno == ETIMEDOUT) return 1;  return -1;
SemTimedwaitTest ==
    /\ sy.at = "sem_timedwait_test"
    /\ sy' = IF sy.rc = -1 /\ sy.errno = "EINTR"
             THEN [sy EXCEPT !.at = "sem_timedwait"]
             ELSE [sy EXCEPT !.at = "idle",
                             !.ret = IF sy.rc = 0 THEN 0
                                     ELSE IF sy.errno = "ETIMEDOUT" THEN 1 ELSE -1]
    /\ UNCHANGED <<slots, items, bufferVars>>

\* CLOCK_REALTIME advances
ClockTick ==
    /\ sy.now < MaxTime
    /\ sy' = [sy EXCEPT !.now = @ + 1]
    /\ UNCHANGED <<slots, items, bufferVars>>

\* another thread's sync_post_items / sync_post_slots
OtherPost ==
    /\ \E s \in SyncSems :
          /\ SemValue(s) < q.capacity
          /\ SemSet(s, sem_post(SemValue(s)))
    /\ UNCHANGED <<sy, bufferVars>>

NextSync ==
    \/ SyncWait \/ SyncTimedWait \/ SemWaitCall \/ SemWaitTest
    \/ ClockGettime \/ SemTimedwaitCall \/ SemTimedwaitTest
    \/ ClockTick \/ OtherPost

SpecSync == Init /\ [][NextSync]_vars

\* ------------------------------------------------------------------ queue.c driven by one caller

InitQueue == InitWith(1..QCap)

\* queue_push(&q, &msg) with any priority; the value is the ordinal of the call
\* (m[Main] keeps the fields the caller set)
QueuePush ==
    /\ putCalls < MaxPush
    /\ \E p \in Priorities, s \in CallerSeq :
          LET r == queue_push(q, [value |-> putCalls, priority |-> p,
                                  producer_id |-> 0, seq |-> s]) IN
          /\ q' = r.q
          /\ m' = [m EXCEPT ![Main] = [value |-> putCalls, priority |-> p,
                                       producer_id |-> 0]]
          /\ rcq' = [rcq EXCEPT ![Main] = r.rc]
          /\ phase' = IF r.rc # 0 THEN phase
                      ELSE IF q.count = 0 \/ phase = "fill" THEN "fill"
                      ELSE "mixed"
          /\ popped' = IF r.rc = 0 /\ q.count = 0 THEN <<>> ELSE popped
    /\ qPrev' = q
    /\ lastQ' = "push"
    /\ putCalls' = putCalls + 1
    /\ UNCHANGED <<slots, items, mtx, stop_flag, pc, op, out, rc, nPutOK, nGetOK,
                   nPushed, nSlotPost, fullAtCall, inserted, delivered, call, runVars, sy>>

\* queue_pop(&q, &out)
QueuePop ==
    LET r == queue_pop(q, out[Main]) IN
    /\ q' = r.q
    /\ rcq' = [rcq EXCEPT ![Main] = r.rc]
    /\ out' = [out EXCEPT ![Main] = r.out]
    /\ popped' = IF r.rc = 0 THEN Append(popped, r.out) ELSE popped
    /\ phase' = IF r.rc = 0 /\ phase = "fill" THEN "drain" ELSE phase
    /\ qPrev' = q
    /\ lastQ' = "pop"
    /\ UNCHANGED <<slots, items, mtx, stop_flag, pc, op, m, rc, histVars, call, runVars, sy>>

NextQueue == QueuePush \/ QueuePop

SpecQueue == InitQueue /\ [][NextQueue]_vars

\* ------------------------------------------------------------------ positions

PutLabels  == {"put_wait", "put_lock", "put_push", "put_unlock", "put_finish"}
GetLabels  == {"get_wait", "get_lock", "get_pop", "get_unlock", "get_finish"}
PutILabels == {"puti_chk1", "puti_twait", "puti_chk2", "puti_lock", "puti_chk3",
               "puti_stop_unlock", "puti_stop_post", "puti_push", "puti_unlock",
               "puti_finish"}
GetILabels == {"geti_chk1", "geti_twait", "geti_chk2", "geti_lock", "geti_chk3",
               "geti_stop_unlock", "geti_stop_post", "geti_pop", "geti_unlock",
               "geti_finish"}
CountLabels == {"cnt_lock", "cnt_read", "cnt_unlock"}

\* t is inside buffer_put, buffer_get or one of the interruptible forms
InPutGet(t) == pc[t] \in PutLabels \cup GetLabels \cup PutILabels \cup GetILabels

\* no thread is inside a put or a get
AtRest == \A t \in Threads : ~InPutGet(t)

\* t is about to execute queue_push, queue_pop or the read of q.count
AccessLabels == {"put_push", "puti_push", "get_pop", "geti_pop", "cnt_read"}

\* t is between a sync_lock that returned and the sync_unlock that follows it
HoldLabels == AccessLabels \cup {"put_unlock", "puti_unlock", "get_unlock", "geti_unlock",
                                 "cnt_unlock", "puti_chk3", "geti_chk3",
                                 "puti_stop_unlock", "geti_stop_unlock"}

\* t has popped a message into its out and has not returned yet
PoppedLabels == {"get_unlock", "get_finish", "geti_unlock", "geti_finish"}

\* ------------------------------------------------------------------ claims

\* C1: in every state in which no thread is inside buffer_put, buffer_get,
\* buffer_put_interruptible or buffer_get_interruptible, items + slots equals the
\* capacity and items equals q.count.
C1_CountsAtRest ==
    AtRest => (items + slots = q.capacity /\ items = q.count)

\* C1 witness: at rest after the stop flag was set, one message left in the queue, an
\* interruptible get having returned 1
C1_Witness ==
    /\ AtRest
    /\ stop_flag = 1
    /\ nPutOK = 2 /\ nGetOK = 1
    /\ op["c2"] = "get_i" /\ rc["c2"] = 1
    /\ items = 1

\* C2: the queue_push of buffer_put and buffer_put_interruptible never finds the queue
\* full: the count is below the capacity when a thread is about to push, the push
\* returns 0, and no put returns -4.
C2_PushNeverFull ==
    \A t \in Producers :
        /\ pc[t] \in {"put_push", "puti_push"} => q.count < q.capacity
        /\ pc[t] \in {"put_unlock", "puti_unlock", "put_finish", "puti_finish"}
              => rcq[t] = 0
        /\ (pc[t] = "idle" /\ op[t] \in {"put", "put_i"}) => rc[t] # -4

\* C2 witness: a put about to push into the last free position while the other producer
\* polls for a slot
C2_Witness ==
    /\ pc["p1"] = "put_push"
    /\ q.count = q.capacity - 1
    /\ slots = 0
    /\ pc["p2"] = "puti_twait"

\* C3: the queue_pop of buffer_get and buffer_get_interruptible never finds the queue
\* empty: the count is at least 1 when a thread is about to pop, the pop returns 0,
\* and no get returns -4.
C3_PopNeverEmpty ==
    \A t \in Consumers :
        /\ pc[t] \in {"get_pop", "geti_pop"} => q.count >= 1
        /\ pc[t] \in PoppedLabels => rcq[t] = 0
        /\ (pc[t] = "idle" /\ op[t] \in {"get", "get_i"}) => rc[t] # -4

\* C3 witness: a get about to pop the only message while the other consumer waits
C3_Witness ==
    /\ pc["c2"] = "geti_pop"
    /\ q.count = 1
    /\ items = 0
    /\ pc["c1"] = "get_wait"

\* C4: every thread about to execute queue_push, queue_pop or the q.count read of
\* buffer_count owns the mutex, at most one thread is between sync_lock and
\* sync_unlock, and so no two threads are at a queue access together.
C4_MutualExclusion ==
    /\ \A t \in Threads : pc[t] \in HoldLabels => mtx = t
    /\ Cardinality({t \in Threads : pc[t] \in HoldLabels}) <= 1
    /\ Cardinality({t \in Threads : pc[t] \in AccessLabels}) <= 1

\* C4 witness: buffer_count reads q.count while a put that holds a slot token waits for
\* the mutex and an interruptible get polls for an item
C4_Witness ==
    /\ pc[Main] = "cnt_read"
    /\ mtx = Main
    /\ pc["p1"] = "put_lock"
    /\ pc["c2"] = "geti_twait"

\* removal of the i-th element of a sequence
RemoveAt(seq, i) == [j \in 1..(Len(seq) - 1) |-> IF j < i THEN seq[j] ELSE seq[j + 1]]

\* C5: queue_pop on a non-empty queue returns the held message of maximum priority
\* and, among those, of smallest sequence number; exactly that message is removed, the
\* others keep their order, and count decreases by 1.
C5_PopSelectsBest ==
    (lastQ = "pop" /\ qPrev.count > 0) =>
        LET H == Held(qPrev)
            o == out[Main]
        IN  /\ rcq[Main] = 0
            /\ q.count = qPrev.count - 1
            /\ \E i \in 1..Len(H) :
                  /\ H[i] = o
                  /\ \A j \in 1..Len(H) :
                        /\ H[j].priority <= o.priority
                        /\ (H[j].priority = o.priority /\ j # i) => H[j].seq > o.seq
                  /\ Held(q) = RemoveAt(H, i)

\* C5 witness: a pop from three held messages, two of them of the highest priority,
\* the chosen one not at the front
C5_Witness ==
    /\ lastQ = "pop"
    /\ qPrev.count = 3
    /\ qPrev.buf[0].priority < qPrev.buf[1].priority
    /\ qPrev.buf[1].priority = qPrev.buf[2].priority
    /\ out[Main] = qPrev.buf[1]

\* C6: after at most C pushes into an empty queue, the pops that follow return the
\* messages in non-increasing priority order, and messages of equal priority in the
\* order in which they were pushed (the value of a message is the ordinal of its push).
C6_PopOrder ==
    phase \in {"fill", "drain"} =>
        \A i, j \in 1..Len(popped) :
            i < j => /\ popped[i].priority >= popped[j].priority
                     /\ popped[i].priority = popped[j].priority
                           => popped[i].value < popped[j].value

\* C6 witness: priorities 1, 1, 2 pushed in that order and popped until empty: the 2
\* first, then the two 1s in push order
C6_Witness ==
    /\ phase = "drain"
    /\ q.count = 0
    /\ Len(popped) = 3
    /\ <<popped[1].priority, popped[2].priority, popped[3].priority>> = <<2, 1, 1>>
    /\ popped[1].value > popped[3].value
    /\ popped[2].value < popped[3].value

\* C7: after every started put and get has returned, buffer_count returns the number
\* of puts that returned 0 minus the number of gets that returned 0, a value in 0..C
\* (at cnt_unlock the local c holds the value the call returns).
C7_CountIsPutsMinusGets ==
    (AtRest /\ pc[Main] = "cnt_unlock") =>
        /\ rcq[Main] = nPutOK - nGetOK
        /\ rcq[Main] \in 0..q.capacity

\* C7 witness: buffer_count about to return 1 after two successful puts and one
\* successful get
C7_Witness ==
    /\ AtRest
    /\ pc[Main] = "cnt_unlock"
    /\ nPutOK = 2 /\ nGetOK = 1
    /\ rcq[Main] = 1

\* t has not taken a slot token in the put it is in
BeforeSlotLabels == {"put_wait", "puti_chk1", "puti_twait"}

\* C8: the puts that have pushed minus the gets that have posted their slot back is
\* never more than C, and a put that started while C such puts were outstanding has
\* not taken a slot, pushed or returned 0 as long as no get has posted a slot.
C8_AtMostCUnmatched ==
    /\ nPushed - nSlotPost <= q.capacity
    /\ \A t \in Producers :
          fullAtCall[t] =>
              \/ pc[t] \in BeforeSlotLabels
              \/ pc[t] = "idle" /\ rc[t] = 1

\* C8 witness: C puts are unmatched, a blocking put and an interruptible put both
\* started in that situation and wait for a slot
C8_Witness ==
    /\ nPushed - nSlotPost = q.capacity
    /\ fullAtCall["p1"] /\ pc["p1"] = "put_wait"
    /\ slots = 0
    /\ q.count = q.capacity

\* the number of places a message with sequence number s is in: held in the queue,
\* popped into the out of a get that has not returned, or returned by a get
Copies(s) ==
    Cardinality({i \in 0..(q.count - 1) : q.buf[i].seq = s})
    + Cardinality({t \in Threads : pc[t] \in PoppedLabels /\ out[t].seq = s})
    + delivered[s]

\* no sequence number is returned by two gets or stored by two pushes, and every
\* message pushed is in exactly one place
NoDuplicateNoLoss ==
    \A s \in 0..MaxPuts :
        /\ delivered[s] <= 1
        /\ inserted[s] <= 1
        /\ Copies(s) = inserted[s]

\* C9 as stated: no duplicate, no loss, and whenever the successful gets equal the
\* successful puts the count buffer_count reads is 0.
C9_AsClaimed ==
    /\ NoDuplicateNoLoss
    /\ (pc[Main] = "cnt_read" /\ nGetOK = nPutOK) => q.count = 0

\* C9 amended: no duplicate, no loss, and once every started put and get has returned
\* and the successful gets equal the successful puts, the queue is empty and the count
\* buffer_count reads is 0.
C9_NoDuplicateNoLoss ==
    /\ NoDuplicateNoLoss
    /\ (AtRest /\ nGetOK = nPutOK) => q.count = 0
    /\ (AtRest /\ nGetOK = nPutOK /\ pc[Main] = "cnt_unlock") => rcq[Main] = 0

\* C9 witness: two producers have put, two consumers have each got one of the two
\* messages, and buffer_count is about to return 0
C9_Witness ==
    /\ AtRest
    /\ nPutOK = 2 /\ nGetOK = 2
    /\ delivered[1] = 1 /\ delivered[2] = 1
    /\ op["c1"] = "get" /\ rc["c1"] = 0 /\ op["c2"] = "get_i" /\ rc["c2"] = 0
    /\ out["c1"].seq # out["c2"].seq
    /\ pc[Main] = "cnt_unlock"

\* positions of an interruptible call up to and including its stop check after the lock
PreCommitLabels == {"puti_chk1", "puti_twait", "puti_chk2", "puti_lock", "puti_chk3",
                    "puti_stop_unlock", "puti_stop_post",
                    "geti_chk1", "geti_twait", "geti_chk2", "geti_lock", "geti_chk3",
                    "geti_stop_unlock", "geti_stop_post"}

\* positions of an interruptible call after that check read the flag as 0
CommitLabels == {"puti_push", "puti_unlock", "puti_finish",
                 "geti_pop", "geti_unlock", "geti_finish"}

Polling == PollingPut \cup PollingGet

\* C10 as stated: once stop_flag is set, no interruptible call executes queue_push or
\* queue_pop, and every interruptible call that returns returns 1.
C10_AsClaimed ==
    [][stop_flag = 1 =>
          \A t \in Polling :
              /\ pc[t] \in {"puti_push", "geti_pop"} => pc'[t] = pc[t]
              /\ (pc[t] # "idle" /\ pc'[t] = "idle") => rc'[t] = 1]_vars

\* C10 amended: once stop_flag is set, an interruptible call that is invoked
\* afterwards, or that is in progress and has not yet passed its stop check after
\* sync_lock, never reaches queue_push / queue_pop and returns 1; and stop_flag stays set.
C10_StoppedBeforeCommit ==
    [][stop_flag = 1 =>
          /\ stop_flag' = 1
          /\ \A t \in Polling :
                /\ pc[t] \in PreCommitLabels \cup {"idle"} => pc'[t] \notin CommitLabels
                /\ (pc[t] \in PreCommitLabels /\ pc'[t] = "idle") => rc'[t] = 1
                /\ pc[t] \in PreCommitLabels => q' = q \/ pc'[t] = pc[t]]_vars

\* C10 witness: the flag was set while an interruptible put held the mutex before its
\* last check and an interruptible get held an item token; the put has rolled back and
\* returned 1, the get is about to post its token back
C10_Witness ==
    /\ stop_flag = 1
    /\ op["p2"] = "put_i" /\ pc["p2"] = "idle" /\ rc["p2"] = 1
    /\ pc["c2"] = "geti_stop_post"
    /\ nPutOK = 1 /\ nGetOK = 0
    /\ putCalls = 2

\* positions of the stop branches of the interruptible forms
StopLabels == {"puti_stop_unlock", "puti_stop_post", "geti_stop_unlock", "geti_stop_post"}

\* positions of an interruptible call between its queue_push / queue_pop and its return
AfterMutationLabels == {"puti_unlock", "puti_finish", "geti_unlock", "geti_finish"}

\* C11: an interruptible call that has loaded stop_flag as set (at the loop head, after
\* the token or after the lock) is in a stop branch or has returned 1, and has made no
\* queue_push / queue_pop; every queue_push / queue_pop of an interruptible call is made
\* holding the mutex after the check that follows sync_lock loaded stop_flag as 0, and a
\* call makes at most one.
C11_NoMutationAfterSeeingStop ==
    \A t \in Polling :
        /\ call[t].saw = 1 =>
              /\ pc[t] \in StopLabels \/ (pc[t] = "idle" /\ rc[t] = 1)
              /\ call[t].muts = 0
        /\ pc[t] \in {"puti_push", "geti_pop"} =>
              /\ call[t].cs = 0 /\ mtx = t /\ call[t].muts = 0
        /\ pc[t] \in {"puti_unlock", "geti_unlock"} => call[t].cs = 0 /\ mtx = t
        /\ call[t].muts > 0 =>
              /\ call[t].muts = 1
              /\ pc[t] \in AfterMutationLabels \/ (pc[t] = "idle" /\ rc[t] = 0)

\* C11 witness: an interruptible put took a slot and the mutex, then loaded stop_flag
\* as set at its check after the lock
C11_Witness ==
    /\ stop_flag = 1
    /\ pc["p2"] = "puti_stop_unlock"
    /\ call["p2"].cs = 1 /\ call["p2"].saw = 1 /\ call["p2"].taken = 1
    /\ mtx = "p2"
    /\ pc["c2"] = "idle" /\ op["c2"] = "get_i" /\ rc["c2"] = 1 /\ call["c2"].saw = 1

\* C12: an interruptible call that returned 1 after taking a token took exactly one,
\* its posts minus its takes are 0 on slots and on items, it made no queue_push /
\* queue_pop, and it does not own the mutex.
C12_StoppedCallNetZero ==
    \A t \in Polling :
        (pc[t] = "idle" /\ op[t] \in {"put_i", "get_i"} /\ rc[t] = 1
            /\ call[t].taken > 0) =>
              /\ call[t].taken = 1
              /\ call[t].dslots = 0 /\ call[t].ditems = 0
              /\ call[t].muts = 0
              /\ mtx # t

\* C12 witness: an interruptible get took the only item token, found the flag set and
\* returned 1; the item is back and still in the queue
C12_Witness ==
    /\ pc["c2"] = "idle" /\ op["c2"] = "get_i" /\ rc["c2"] = 1
    /\ call["c2"].taken = 1
    /\ items = 1 /\ q.count = 1
    /\ AtRest

\* positions at which a thread is inside a timed or an untimed semaphore wait
TimedWaitLabels == {"puti_twait", "geti_twait"}
UntimedWaitLabels == {"put_wait", "get_wait"}

\* C14: while stop_flag is set no interruptible call enters a timed wait (so a call
\* finishes at most the one wait it had reached when the flag was set), the loop head
\* reached after a timeout returns 1 instead of looping, and an interruptible call is
\* never at an untimed semaphore wait.
C14_AtMostOneMoreWait ==
    [][\A t \in Polling :
          /\ pc'[t] \notin UntimedWaitLabels
          /\ stop_flag = 1 =>
                /\ pc'[t] \in TimedWaitLabels => pc[t] \in TimedWaitLabels
                /\ (pc[t] \in {"puti_chk1", "geti_chk1"} /\ pc'[t] # pc[t])
                      => (pc'[t] = "idle" /\ rc'[t] = 1)]_vars

\* C14 witness: the flag is set while both interruptible calls are at their timed wait
C14_Witness ==
    /\ stop_flag = 1
    /\ pc["p2"] = "puti_twait" /\ slots = 0
    /\ pc["c2"] = "geti_twait" /\ items = 0

\* C19: the count is between 0 and the capacity in every state, also while puts and
\* gets are in progress, and the capacity is the one queue_init set (in this
\* specification qPrev stays the queue queue_init returned) and the size of buf.
C19_CountInRange ==
    /\ q.count >= 0
    /\ q.count <= q.capacity
    /\ q.capacity = qPrev.capacity
    /\ qPrev = queue_init(qPrev.capacity)
    /\ DOMAIN q.buf = 0..(q.capacity - 1)

\* C19 witness: the queue is full while one get is about to pop and an interruptible
\* put polls for a slot
C19_Witness ==
    /\ q.count = q.capacity
    /\ pc["c1"] = "get_pop"
    /\ pc["p2"] = "puti_twait"
    /\ slots = 0

\* C20: every held message has a sequence number below next_seq, no two held messages
\* share one, and next_seq is one more than before after a push that returned 0 and
\* what it was before after a push that failed and after a pop.
C20_SeqDistinctBelowNext ==
    /\ \A i \in 0..(q.count - 1) :
          /\ q.buf[i].seq >= 1
          /\ q.buf[i].seq < q.next_seq
          /\ \A j \in 0..(q.count - 1) : q.buf[i].seq = q.buf[j].seq => i = j
    /\ (lastQ = "push" /\ rcq[Main] = 0) => q.next_seq = qPrev.next_seq + 1
    /\ (lastQ = "push" /\ rcq[Main] # 0) => q = qPrev
    /\ lastQ = "pop" => q.next_seq = qPrev.next_seq
    /\ q.next_seq >= qPrev.next_seq

\* C20 witness: a push into a full queue failed after earlier pushes and a pop, and left
\* next_seq as it was
C20_Witness ==
    /\ lastQ = "push" /\ rcq[Main] = -2
    /\ q.count = q.capacity /\ q.capacity = 2
    /\ q.next_seq = 4
    /\ q.buf[0].seq = 1 /\ q.buf[1].seq = 3

AfterCreation == {"stop_log", "join", "end_q", "cleanup", "returned"}

\* C15: stop_flag starts at 0 and is 1 exactly when main has stored to it (no worker
\* and no buffer operation writes it, and it never goes back to 0); main stores to it
\* at most once, and in every run that reaches thread creation it has stored exactly
\* once by the time it is past the creation loops and the sleep.
C15_StopFlagWrittenOnceByMain ==
    /\ stop_flag = (IF mn.stores > 0 THEN 1 ELSE 0)
    /\ mn.stores <= 1
    /\ (mn.lg_ok /\ mn.at \in AfterCreation) => mn.stores = 1
    /\ ~mn.lg_ok => mn.stores = 0

C15_Witness ==
    /\ mn.at = "returned"
    /\ mn.stores = 1
    /\ ~mn.start_failed
    /\ nPutOK >= 1
    /\ nGetOK >= 1

\* the worker's interruptible call was made with stop_flag already set, and the worker
\* has not yet acted on its return
EnteredStopped(t) == w[t].at = "call" /\ w[t].entry = 1

\* C16: an interruptible call made with stop_flag already set is at its first load of
\* stop_flag or has returned 1, and it has taken no semaphore token, posted none,
\* does not own the mutex and has made no queue_push / queue_pop; and when main stored
\* to stop_flag before any worker had made its first call, nothing is ever inserted or
\* removed, no worker counts an operation, the queue stays as queue_init left it and
\* slots == C and items == 0 throughout.
C16_StoppedAtEntryTouchesNothing ==
    /\ \A t \in RunWorkers :
          EnteredStopped(t) =>
             /\ pc[t] \in {"puti_chk1", "geti_chk1", "idle"}
             /\ pc[t] = "idle" => rc[t] = 1
             /\ call[t] = [NoCall EXCEPT !.saw = call[t].saw]
             /\ mtx # t
    /\ mn.early =>
          /\ nPushed = 0 /\ nPutOK = 0 /\ nGetOK = 0
          /\ \A t \in RunWorkers : w[t].ops = 0
          /\ q = queue_init(q.capacity)
          /\ slots = q.capacity
          /\ items = 0

C16_Witness ==
    /\ mn.early
    /\ mn.at = "returned"
    /\ \A t \in RunWorkers : w[t].at = "done" /\ w[t].called /\ w[t].entry = 1
    /\ slots = q.capacity /\ items = 0 /\ q.count = 0

\* the threads pthread_create has started
Started == {t \in RunWorkers : w[t].at # "none"}

\* no worker is inside producer_thread / consumer_thread, so none is in a buffer
\* operation or waiting for the mutex or a semaphore
NoThreadInside ==
    /\ \A t \in RunWorkers : w[t].at \in {"none", "done"} /\ pc[t] = "idle"
    /\ mtx = NoThread

\* C18 as stated: whenever buffer_destroy has run, stop_flag has been set, every
\* started thread has been joined and no thread is inside the buffer.
C18_AsClaimed ==
    mn.destroyed => (stop_flag = 1 /\ mn.joined = Started /\ NoThreadInside)

\* C18: whenever buffer_destroy has run, every started thread has been joined and no
\* thread is inside the buffer; stop_flag has been set if main got past logger_init,
\* and if logger_init failed it has not been set and no thread was ever started.
C18_DestroyAfterJoin ==
    mn.destroyed =>
        /\ mn.joined = Started
        /\ NoThreadInside
        /\ IF mn.lg_ok THEN stop_flag = 1 ELSE stop_flag = 0 /\ Started = {}

C18_Witness ==
    /\ mn.destroyed
    /\ mn.lg_ok
    /\ mn.joined = RunWorkers
    /\ nGetOK >= 1

\* every started thread has returned from its thread function, main has joined each
\* of them and has logged RUN_END
RunEnded ==
    /\ \A t \in RunWorkers : w[t].at \in {"none", "done"}
    /\ mn.joined = Started
    /\ mn.run_end

\* C13: under fair scheduling of main and of every worker, with each timed wait
\* returning (token taken, or timed out), once stop_flag is set every started thread
\* eventually returns, main's joins complete and the run reaches RUN_END.
C13_StopLeadsToRunEnd == (stop_flag = 1) ~> RunEnded

C13_Witness ==
    /\ RunEnded
    /\ stop_flag = 1
    /\ Started = RunWorkers
    /\ \A t \in RunWorkers : w[t].ops >= 1

\* t takes a step of its own that changes a semaphore or ends a semaphore wait
ActsOnSemaphore(t) ==
    /\ pc'[t] # pc[t]
    /\ \/ slots' # slots
       \/ items' # items
       \/ pc[t] \in TimedWaitLabels \cup UntimedWaitLabels

\* C21: a thread at a semaphore wait does not own the mutex; a step that takes or posts
\* slots or items, or that ends a wait (token, timeout or error), is made by a thread
\* that owns the mutex neither before nor after it; and the owner of the mutex inside a
\* put or get has taken its token and has posted nothing yet.
C21_NoSemaphoreUnderMutex ==
    [][\A t \in Threads :
          /\ pc[t] \in TimedWaitLabels \cup UntimedWaitLabels => mtx # t
          /\ ActsOnSemaphore(t) => (mtx # t /\ mtx' # t)
          /\ (mtx = t /\ op[t] # "count") =>
                 (call[t].taken = 1 /\ call[t].dslots + call[t].ditems = -1)]_vars

\* C21 witness: a put has posted its slot back after a failed sync_lock and returned -3
\* while main owns the mutex inside buffer_count
C21_Witness ==
    /\ pc[FaultProducer] = "idle" /\ rc[FaultProducer] = -3
    /\ call[FaultProducer].taken = 1 /\ call[FaultProducer].dslots = 0
    /\ mtx = Main

\* the loop heads of the interruptible forms, and the timed wait each one leads to
LoopHeadLabels == {"puti_chk1", "geti_chk1"}
WaitOfLoopHead(label) == IF label = "puti_chk1" THEN "puti_twait" ELSE "geti_twait"

\* C22: a step from a timed wait back to the loop head (the wait timed out) leaves
\* slots, items, the mutex and the queue as they were, and it is the only way a call
\* gets there without a token; the next step of that call loads stop_flag and goes to
\* the timed wait again if it is 0, and returns 1 otherwise.
C22_TimeoutChangesNothing ==
    [][\A t \in Threads :
          /\ (pc[t] \in TimedWaitLabels /\ pc'[t] \in LoopHeadLabels) =>
                 /\ UNCHANGED <<slots, items, mtx, q>>
                 /\ call'[t].tmo = 1
                 /\ call'[t].taken = 0 /\ call'[t].muts = 0
          /\ (call[t].tmo = 0 /\ call'[t].tmo = 1) =>
                 (pc[t] \in TimedWaitLabels /\ pc'[t] \in LoopHeadLabels)
          /\ (call[t].tmo = 1 /\ pc'[t] # pc[t]) =>
                 /\ pc[t] \in LoopHeadLabels
                 /\ IF stop_flag = 0
                    THEN pc'[t] = WaitOfLoopHead(pc[t]) /\ rc'[t] = rc[t]
                    ELSE pc'[t] = "idle" /\ rc'[t] = 1]_vars

\* C22 witness: the consumer's timed wait has timed out while main owns the mutex, and
\* stop_flag is set, so its next step returns 1
C22_Witness ==
    /\ call[FaultConsumer].tmo = 1
    /\ pc[FaultConsumer] = "geti_chk1"
    /\ stop_flag = 1
    /\ mtx = Main

\* the interruptible forms
InterruptibleOps == {"put_i", "get_i"}

\* C23: an interruptible call leaves its timed wait by returning only with -2 (the wait
\* failed), and that step changes neither semaphore, nor the mutex, nor the queue; an
\* interruptible call that has returned -2 has taken no token, posted none and made no
\* queue_push / queue_pop, so it never reached sync_lock.
C23_TimedWaitErrorReturnsAtOnce ==
    [][\A t \in Threads :
          /\ (pc[t] \in TimedWaitLabels /\ pc'[t] = "idle") =>
                 /\ rc'[t] = -2
                 /\ UNCHANGED <<slots, items, mtx, q>>
                 /\ mtx # t
          /\ (pc[t] = "idle" /\ op[t] \in InterruptibleOps /\ rc[t] = -2) =>
                 /\ call[t].taken = 0 /\ call[t].muts = 0
                 /\ call[t].dslots = 0 /\ call[t].ditems = 0]_vars

\* C23 witness: an interruptible put returned -2 although a slot was free and stop_flag
\* was not set
C23_Witness ==
    /\ pc[FaultProducer] = "idle"
    /\ op[FaultProducer] = "put_i"
    /\ rc[FaultProducer] = -2
    /\ stop_flag = 0
    /\ slots = q.capacity

\* positions after the sync_unlock that follows queue_push / queue_pop
PutFinishLabels == {"put_finish", "puti_finish"}
GetFinishLabels == {"get_finish", "geti_finish"}

\* C24: the return that follows queue_push / queue_pop is made without the mutex; when
\* the container call failed it returns -4, posts slots (put) or items (get) once,
\* leaves the other semaphore and the queue as they were, and the call has made no
\* queue_push / queue_pop; otherwise it returns 0. A call that returned -4 took one
\* token and posted that one token back.
C24_ContainerFailureRollsBack ==
    [][\A t \in Threads :
          /\ (pc[t] \in PutFinishLabels \cup GetFinishLabels /\ pc'[t] = "idle") =>
                 /\ mtx # t /\ mtx' = mtx
                 /\ rc'[t] = (IF rcq[t] # 0 THEN -4 ELSE 0)
                 /\ rcq[t] # 0 =>
                        /\ q' = q
                        /\ call[t].muts = 0
                        /\ slots' = (IF pc[t] \in PutFinishLabels THEN slots + 1 ELSE slots)
                        /\ items' = (IF pc[t] \in GetFinishLabels THEN items + 1 ELSE items)
          /\ (pc[t] = "idle" /\ rc[t] = -4) =>
                 /\ call[t].taken = 1 /\ call[t].muts = 0
                 /\ call[t].dslots = 0 /\ call[t].ditems = 0]_vars

\* C24 witness: buffer_get_interruptible returned -4 with a message in the queue, its
\* item token posted back
C24_Witness ==
    /\ pc[FaultConsumer] = "idle"
    /\ op[FaultConsumer] = "get_i"
    /\ rc[FaultConsumer] = -4
    /\ q.count = 1
    /\ items = 1

\* positions at the sync_lock of a put and of a get
PutLockLabels == {"put_lock", "puti_lock"}
GetLockLabels == {"get_lock", "geti_lock"}

\* C25: a put or get leaves its sync_lock by returning only with -3 (the lock failed);
\* that step posts slots (put) or items (get) once and leaves the other semaphore, the
\* mutex and the queue as they were; a put or get that returned -3 took one token,
\* posted that token back and made no queue_push / queue_pop.
C25_LockFailureRollsBack ==
    [][\A t \in Threads :
          /\ (pc[t] \in PutLockLabels \cup GetLockLabels /\ pc'[t] = "idle") =>
                 /\ rc'[t] = -3
                 /\ q' = q /\ mtx' = mtx /\ mtx # t
                 /\ slots' = (IF pc[t] \in PutLockLabels THEN slots + 1 ELSE slots)
                 /\ items' = (IF pc[t] \in GetLockLabels THEN items + 1 ELSE items)
          /\ (pc[t] = "idle" /\ op[t] # "count" /\ rc[t] = -3) =>
                 /\ call[t].taken = 1 /\ call[t].muts = 0
                 /\ call[t].dslots = 0 /\ call[t].ditems = 0]_vars

\* C25 witness: buffer_get returned -3 with a message in the queue, its item token
\* posted back
C25_Witness ==
    /\ pc[FaultConsumer] = "idle"
    /\ op[FaultConsumer] = "get"
    /\ rc[FaultConsumer] = -3
    /\ q.count = 1
    /\ items = 1

\* C26: queue_push on a queue with count == capacity returns -2 and leaves the queue
\* (count, next_seq, every stored message) as it was; with count < capacity it returns
\* 0, stores the caller's value, priority and producer id with seq = the old next_seq
\* at index old count, leaves the messages before it as they were, and increases
\* count and next_seq by 1.
C26_PushContract ==
    lastQ = "push" =>
        IF qPrev.count = qPrev.capacity
        THEN rcq[Main] = -2 /\ q = qPrev
        ELSE /\ rcq[Main] = 0
             /\ q.capacity = qPrev.capacity
             /\ q.count = qPrev.count + 1
             /\ q.next_seq = qPrev.next_seq + 1
             /\ q.buf[qPrev.count] = [value       |-> m[Main].value,
                                      priority    |-> m[Main].priority,
                                      producer_id |-> m[Main].producer_id,
                                      seq         |-> qPrev.next_seq]
             /\ \A i \in 0..(qPrev.count - 1) : q.buf[i] = qPrev.buf[i]

\* C26 witness: after three pushes and a pop, a push stored its message third with
\* sequence number 4
C26_Witness ==
    /\ lastQ = "push" /\ rcq[Main] = 0
    /\ qPrev.count = 2 /\ q.count = 3
    /\ q.buf[2].seq = 4
    /\ q.buf[2].priority = MaxPrio

\* C27: a queue_pop made on a queue with count == 0 returns -2 and leaves the queue
\* (count, next_seq, the array) and the caller's output message as they were.
C27_PopEmptyChangesNothing ==
    [][(lastQ' = "pop" /\ q.count = 0) =>
          (rcq'[Main] = -2 /\ q' = q /\ out' = out)]_vars

\* C27 witness: a pop on a queue emptied by an earlier pop; the caller's message still
\* holds what that earlier pop returned
C27_Witness ==
    /\ lastQ = "pop" /\ rcq[Main] = -2
    /\ qPrev.count = 0 /\ q.count = 0
    /\ out[Main].seq = 2
    /\ q.next_seq = 3

\* C28: a queue_pop that returned 0 removed one message, the one it returned: the
\* messages held afterwards are those held before without it, each with the value,
\* priority, producer id and seq it had, in the same order; next_seq and capacity are
\* unchanged.
C28_PopRemovesOnlySelected ==
    (lastQ = "pop" /\ rcq[Main] = 0) =>
        /\ q.next_seq = qPrev.next_seq
        /\ q.capacity = qPrev.capacity
        /\ \E i \in 1..qPrev.count :
              /\ Held(qPrev)[i] = out[Main]
              /\ Held(q) = RemoveAt(Held(qPrev), i)

\* C28 witness: the middle one of three held messages was popped; the first stayed at
\* index 0 and the last moved down to index 1
C28_Witness ==
    /\ lastQ = "pop" /\ rcq[Main] = 0
    /\ qPrev.count = 3 /\ q.count = 2
    /\ out[Main] = qPrev.buf[1]
    /\ q.buf[0] = qPrev.buf[0]
    /\ q.buf[1] = qPrev.buf[2]
    /\ qPrev.buf[0].seq < qPrev.buf[2].seq

\* The message the run's producer passes to its k-th call of buffer_put_interruptible
\* (k counted from 0) has value k, the producer's fixed priority and its id. Every call
\* but its last returns 0, so the k-th call makes the (k + 1)-th queue_push and the
\* queue gives it seq k + 1: msg is what that put passed, with the seq the queue gave.
AsPut(msg) ==
    /\ msg.value \in 0..(putCalls - 1)
    /\ msg.priority = fixed_priority(ProducerId[RunProducers[1]])
    /\ msg.producer_id = ProducerId[RunProducers[1]]
    /\ msg.seq = msg.value + 1
    /\ msg.seq < q.next_seq

\* C29: every message held in the queue, at every moment between its insertion and
\* its removal, and every message a get has popped or returned, has the value,
\* priority and producer id of the put call that inserted it and the seq the queue
\* assigned (never the seq the caller's message held).
C29_MessagesUnaltered ==
    /\ \A i \in 1..q.count : AsPut(Held(q)[i])
    /\ \A c \in RunWorkers \cap Consumers :
          /\ out[c] # ZeroMsg => AsPut(out[c])
          /\ (pc[c] \in PoppedLabels \/ w[c].at = "ok_q") => out[c] # ZeroMsg

\* C29 witness: the consumer has been given the second message the producer put, the
\* producer has read a count of 1 after a put, and the run is over
C29_Witness ==
    /\ mn.at = "returned"
    /\ nGetOK = 2
    /\ out[RunConsumers[1]].seq = 2
    /\ out[RunConsumers[1]].value = 1
    /\ w[RunProducers[1]].max_q = 1

\* positions of a worker after its loop: the error block, the EXIT block, returned
LeftLoop == {"err_q", "exit", "exit_q", "done"}

\* C30: a worker whose call returned 1 goes to its EXIT block with ops, max_q and its
\* count of *_ERROR events unchanged; a worker whose call returned a negative code goes
\* to the error block, logs one *_ERROR there and goes to the EXIT block; once its rc
\* is not 0 a worker stays out of its loop (it makes no further call) and its
\* statistics do not change; a worker returns by logging one *_EXIT, and a worker that
\* has returned has logged one *_EXIT and one *_ERROR if its rc is negative, none
\* otherwise.
C30_WorkerLeavesLoop ==
    [][\A t \in RunWorkers :
          /\ (w[t].at = "call" /\ w'[t].at # "call" /\ rc[t] = 1) =>
                 (w'[t].at = "exit" /\ w'[t].errors = w[t].errors)
          /\ (w[t].at = "call" /\ w'[t].at # "call" /\ rc[t] < 0) =>
                 (w'[t].at = "err_q" /\ w'[t].errors = w[t].errors)
          /\ (w[t].at = "err_q" /\ w'[t].at # "err_q") =>
                 (w'[t].at = "exit" /\ w'[t].errors = w[t].errors + 1)
          /\ (w[t].at = "exit_q" /\ w'[t].at # "exit_q") =>
                 (w'[t].at = "done" /\ w'[t].exits = w[t].exits + 1)
          /\ w[t].rc # 0 =>
                 /\ w[t].at \in LeftLoop /\ w'[t].at \in LeftLoop
                 /\ w'[t].ops = w[t].ops /\ w'[t].max_q = w[t].max_q
                 /\ w'[t].rc = w[t].rc
                 /\ op'[t] \in InterruptibleOps => pc'[t] = "idle"
          /\ w[t].rc = 1 => w[t].errors = 0
          /\ w[t].at = "done" =>
                 /\ w[t].exits = 1
                 /\ w[t].errors = (IF w[t].rc < 0 THEN 1 ELSE 0)]_vars

\* C30 witness: both workers have returned; the producer's second call failed with -3
\* after one put, the consumer's last call returned 1 after one get
C30_Witness ==
    /\ \A t \in RunWorkers : w[t].at = "done" /\ w[t].exits = 1 /\ w[t].ops = 1
    /\ w[RunProducers[1]].rc = -3 /\ w[RunProducers[1]].errors = 1
    /\ w[RunConsumers[1]].rc = 1 /\ w[RunConsumers[1]].errors = 0

\* the worker's last interruptible call returned 0 and its `a->ops++` is still to come
OpsPending(t) ==
    \/ w[t].at = "ok_q"
    \/ w[t].at = "call" /\ pc[t] = "idle" /\ rc[t] = 0

\* the interruptible calls of worker t that returned 0 (the run has one producer and
\* one consumer)
CallsReturned0(t) == IF t \in Producers THEN nPutOK ELSE nGetOK

\* C31: in every state a worker's ops is the number of its interruptible calls that
\* returned 0, less the one whose `ops++` is still to come, and its max_q is in 0..C;
\* once main has joined the workers and logged RUN_END, the prod_ops and cons_ops it
\* summed are those numbers and prod_ops - cons_ops is the value its buffer_count
\* returned for RUN_END, which is the number of messages left in the queue.
C31_OpsMatchCount ==
    /\ \A t \in RunWorkers :
          /\ w[t].ops = CallsReturned0(t) - (IF OpsPending(t) THEN 1 ELSE 0)
          /\ w[t].max_q \in 0..q.capacity
    /\ mn.run_end =>
          /\ mn.prod_ops = nPutOK /\ mn.cons_ops = nGetOK
          /\ mn.prod_ops - mn.cons_ops = rc[Main]
          /\ rc[Main] = q.count

\* C31 witness: RUN_END was logged with a count of 1 after two puts and one get that
\* returned 0 and a last get that failed with -3; the producer saw the queue full
C31_Witness ==
    /\ mn.run_end
    /\ mn.prod_ops = 2 /\ mn.cons_ops = 1
    /\ rc[Main] = 1
    /\ w[RunConsumers[1]].rc = -3 /\ w[RunConsumers[1]].errors = 1
    /\ w[RunProducers[1]].max_q = 1

\* every started thread has returned and main has joined it, destroyed the buffer and
\* returned from main
MainReturned ==
    /\ mn.at = "returned"
    /\ mn.destroyed
    /\ mn.joined = Started
    /\ \A t \in Started : w[t].at = "done"

\* C32: once a pthread_create has failed, stop_flag is set (by the one store main
\* makes), main has not slept and never does, it is past the creation loops, no thread
\* is created any more, the threads started are those created before the failure, main
\* joins only those and has joined each of them before buffer_destroy, and the exit
\* code it returns is EXIT_FAILURE (EXIT_SUCCESS in a run without a failed start);
\* and under fair scheduling a failed start leads to every started thread returned
\* and joined and main returned.
C32_StartFailure ==
    /\ [][/\ mn.start_failed =>
                /\ stop_flag = 1 /\ mn.stores = 1
                /\ ~mn.slept
                /\ mn.at \in AfterCreation
                /\ mn'.at \in AfterCreation
                /\ {t \in RunWorkers : w'[t].at # "none"} = Started
                /\ Started = {StartedThreads[i] : i \in 1..Len(StartedThreads)}
                /\ Started # RunWorkers
                /\ mn.joined \subseteq Started
                /\ mn.destroyed => mn.joined = Started /\ NoThreadInside
                /\ mn.at = "returned" => mn.exit_code = EXIT_FAILURE
          /\ (mn.at = "returned" /\ mn.lg_ok /\ ~mn.start_failed) =>
                (mn.exit_code = EXIT_SUCCESS /\ mn.slept)]_vars
    /\ mn.start_failed ~> MainReturned

\* C32 witness: the consumer's pthread_create failed after the producer had been
\* started; the producer put one message, was stopped and joined, and main returned
\* EXIT_FAILURE without having slept
C32_Witness ==
    /\ MainReturned
    /\ mn.start_failed
    /\ Started = {RunProducers[1]}
    /\ w[RunProducers[1]].ops = 1
    /\ mn.exit_code = EXIT_FAILURE
    /\ ~mn.slept
    /\ q.count = 1

\* positions inside the do-while of sem_wait_retry and of sem_timedwait_retry
RetryLabels == {"sem_wait", "sem_wait_test", "sem_timedwait", "sem_timedwait_test"}

\* the value of a semaphore after the step
SemValueNext(s) == IF s = "items" THEN items' ELSE slots'

\* the sem_wait / sem_timedwait call that has just returned was interrupted
Interrupted == sy.at \in {"sem_wait_test", "sem_timedwait_test"}
                   /\ sy.rc = -1 /\ sy.errno = "EINTR"

\* C33: a sem_wait or sem_timedwait that returned -1 with errno EINTR is followed by
\* another call on the same semaphore with the same ts, never by a return; the caller
\* changes a semaphore only by the one decrement of a call that returned 0; inside
\* sem_timedwait_retry ts is the deadline computed once from the clock read at entry;
\* sync_wait_* returns 0 (one token taken) or -1 (none taken, errno not EINTR);
\* sync_timedwait_* returns 0 (one token taken), 1 (none taken, errno ETIMEDOUT, the
\* clock at or past ts), -1 (none taken, another errno) or -2 (clock_gettime failed).
C33_EintrRetried ==
    [][/\ Interrupted =>
             /\ sy'.at = (IF sy.fn = "wait" THEN "sem_wait" ELSE "sem_timedwait")
                   \/ sy' = sy \/ sy' = [sy EXCEPT !.now = sy.now + 1]
             /\ sy'.ts = sy.ts /\ sy'.sem = sy.sem /\ sy'.fn = sy.fn
       /\ (sy' # sy /\ sy'.now = sy.now) =>
             /\ SemValueNext(sy'.sem) =
                   SemValue(sy'.sem) - (IF sy'.took > sy.took THEN 1 ELSE 0)
             /\ \A s \in SyncSems \ {sy'.sem} : SemValueNext(s) = SemValue(s)
             /\ sy'.took > sy.took => (sy'.rc = 0 /\ sy.at \in {"sem_wait", "sem_timedwait"})
       /\ sy.at \in {"sem_timedwait", "sem_timedwait_test"} => sy.ts = sy.t0 + PollTicks
       /\ sy.took <= 1
       /\ (sy.at \in RetryLabels \cup {"clock_gettime"} /\ sy'.at = "idle") =>
             /\ sy'.ret = 0 <=> sy.took = 1
             /\ sy'.ret \in (IF sy.fn = "wait" THEN {0, -1} ELSE {0, 1, -1, -2})
             /\ sy'.ret = 1 => (sy.errno = "ETIMEDOUT" /\ sy.now >= sy.ts)
             /\ sy'.ret = -1 => (sy.rc = -1 /\ sy.errno \notin {"EINTR", "ETIMEDOUT"})
             /\ sy'.ret = -2 <=> sy.at = "clock_gettime"]_vars

\* C33 witness: sync_timedwait_items was interrupted twice while items was 0, then
\* timed out at its deadline and returned 1 without a token; items is still 0
C33_Witness ==
    /\ sy.at = "idle" /\ sy.fn = "timedwait" /\ sy.sem = "items"
    /\ sy.ret = 1
    /\ sy.eintr = MaxEintr
    /\ sy.took = 0
    /\ sy.now = sy.ts
    /\ items = 0

\* main has run its two statistics loops
StatsRead == mn.at = "end_q" \/ mn.run_end

C35_SleepChunks ==
    [][\A t \in RunWorkers :
          /\ w[t].at = "sleep_chunk" =>
                /\ w[t].chunk \in 1..PollTicks
                /\ w[t].chunk <= w[t].remaining
          /\ w[t].at \in SleepLabels =>
                /\ w[t].slept + w[t].remaining = w[t].total
                /\ w[t].remaining >= 0 /\ w[t].slept <= w[t].total
                /\ w[t].late <= 1
                /\ w[t].late = 1 => stop_flag = 1
          /\ (w'[t].at = "sleep_chunk" /\ w[t].at # "sleep_chunk") =>
                (w[t].at = "sleep_chk" /\ stop_flag = 0)
          /\ (w[t].at = "sleep_chunk" /\ w'[t].at # "sleep_chunk") =>
                w'[t].at = "sleep_chk"
          /\ (w[t].at = "sleep_chk" /\ stop_flag = 1 /\ w'[t] # w[t]) =>
                w'[t].at = "loop"
          /\ (w[t].at = "sleep_chk" /\ w'[t].at = "loop") =>
                (stop_flag = 1 \/ w[t].remaining = 0)
          /\ (w[t].at = "loop" /\ w'[t] # w[t] /\ stop_flag = 1) =>
                w'[t].at = "exit"]_vars

\* C35 witness: stop_flag was set while the consumer slept its first chunk; it is back
\* at the loop test with part of total_ms left and returns without another chunk
C35_Witness ==
    /\ w[RunConsumers[1]].at = "sleep_chk"
    /\ stop_flag = 1
    /\ w[RunConsumers[1]].late = 1
    /\ w[RunConsumers[1]].slept = PollTicks
    /\ w[RunConsumers[1]].remaining = MaxSleep - PollTicks
    /\ w[RunConsumers[1]].remaining > 0

\* positions of a put or get between the wait that gave it a token and the post that
\* gives the token back (rollback) or posts the paired semaphore
TokenLabels ==
    (PutLabels \cup GetLabels \cup PutILabels \cup GetILabels)
        \ (UntimedWaitLabels \cup TimedWaitLabels \cup LoopHeadLabels)

\* the threads that hold a token
TokenHolders == {t \in Threads : pc[t] \in TokenLabels}

RECURSIVE seq_branch_taken(_, _, _)
seq_branch_taken(qq, i, best) ==
    IF i >= qq.count
    THEN FALSE
    ELSE IF qq.buf[i].priority > qq.buf[best].priority
         THEN seq_branch_taken(qq, i + 1, i)
         ELSE IF qq.buf[i].priority = qq.buf[best].priority
                    /\ qq.buf[i].seq < qq.buf[best].seq
              THEN TRUE
              ELSE seq_branch_taken(qq, i + 1, best)

\* the lowest index that holds a message of the highest priority held
FirstOfMaxPriority(qq) ==
    CHOOSE i \in 0..(qq.count - 1) :
        /\ \A j \in 0..(qq.count - 1) : qq.buf[j].priority <= qq.buf[i].priority
        /\ \A j \in 0..(i - 1) : qq.buf[j].priority < qq.buf[i].priority

\* C37: in every state the held messages are in strictly increasing seq order from
\* index 0 on, and for a non-empty queue the index best_index_to_pop selects is the
\* lowest index of a message of maximum priority, and the `equal priority and smaller
\* seq` branch is not taken in any pass of its loop.
C37_StoredInSeqOrder ==
    /\ \A i, j \in 0..(q.count - 1) : i < j => q.buf[i].seq < q.buf[j].seq
    /\ q.count > 0 =>
          /\ best_index_to_pop(q) = FirstOfMaxPriority(q)
          /\ ~seq_branch_taken(q, 1, 0)

\* C37 witness: after three pushes, a pop and a fourth push the queue holds seq 1, 3, 4;
\* the last two share the highest priority and the first of them, at index 1, is selected
C37_Witness ==
    /\ q.count = 3
    /\ <<q.buf[0].seq, q.buf[1].seq, q.buf[2].seq>> = <<1, 3, 4>>
    /\ q.buf[0].priority < q.buf[1].priority
    /\ q.buf[1].priority = q.buf[2].priority
    /\ best_index_to_pop(q) = 1

\* t is in sem_wait on a semaphore that is 0
BlockedOnSlots(t) == pc[t] = "put_wait" /\ ~sem_can_take(slots)
BlockedOnItems(t) == pc[t] = "get_wait" /\ ~sem_can_take(items)

\* t is in pthread_mutex_lock on a mutex that has an owner
BlockedOnMutex(t) == pc[t] \in {"put_lock", "get_lock", "cnt_lock"} /\ ~mutex_free(mtx)

Blocked(t) == BlockedOnSlots(t) \/ BlockedOnItems(t) \/ BlockedOnMutex(t)

\* C38: it is never the case that every producer is blocked waiting for a slot while
\* every consumer is blocked waiting for an item; the owner of the mutex is between
\* its sync_lock and its sync_unlock, where no step waits, so no thread is blocked on
\* the mutex while its holder is blocked on a semaphore or on the mutex; and when
\* every producer and consumer is blocked, at least one of them on the mutex, the
\* holder is main inside buffer_count, which can step.
C38_NoDeadlock ==
    /\ ~(/\ \A p \in LoopProducers : BlockedOnSlots(p)
         /\ \A c \in LoopConsumers : BlockedOnItems(c))
    /\ \A t \in Threads : mtx = t => (pc[t] \in HoldLabels /\ ~Blocked(t))
    /\ \A t \in Threads : BlockedOnMutex(t) => (mtx # t /\ ~Blocked(mtx))
    /\ (\A t \in LoopThreads : Blocked(t)) => (mtx = Main /\ ~Blocked(Main))

\* C38 witness: the producer waits for a slot of the full queue and the consumer, with
\* its item token, waits for the mutex that main holds inside buffer_count
C38_Witness ==
    /\ \A p \in LoopProducers : BlockedOnSlots(p)
    /\ \A c \in LoopConsumers : BlockedOnMutex(c)
    /\ mtx = Main /\ pc[Main] = "cnt_read"
    /\ q.count = q.capacity

\* stop_flag is not set, the queue holds a message and the consumer thread exists
\* (it calls buffer_get_interruptible until it sees stop_flag set)
GetCanProgress ==
    /\ stop_flag = 0
    /\ q.count >= 1
    /\ w[RunConsumers[1]].at # "none"

\* stop_flag is not set, the queue has a free slot and the producer thread exists and
\* has calls left to make
PutCanProgress ==
    /\ stop_flag = 0
    /\ q.count < q.capacity
    /\ w[RunProducers[1]].at # "none"
    /\ putCalls < MaxPuts

\* C39: under fair scheduling of the workers (and of main, whose sleep may last for
\* ever), from every state with stop_flag not set, a message in the queue and a
\* consumer calling buffer_get_interruptible, a further get returns 0 unless stop_flag
\* is set first; and from every state with stop_flag not set, a free slot and a
\* producer calling buffer_put_interruptible, a further put returns 0 unless stop_flag
\* is set first.
C39_WorkProgresses ==
    \A n \in 0..MaxPuts :
        /\ (GetCanProgress /\ nGetOK = n) ~> (nGetOK > n \/ stop_flag = 1)
        /\ (PutCanProgress /\ nPutOK = n) ~> (nPutOK > n \/ stop_flag = 1)

\* C39 witness: with stop_flag never set and main still in its sleep, the producer
\* has put all its messages and the consumer has got them all
C39_Witness ==
    /\ stop_flag = 0
    /\ mn.at = "timeout"
    /\ nPutOK = MaxPuts /\ nGetOK = MaxPuts
    /\ q.count = 0
    /\ w[RunConsumers[1]].ops = MaxPuts

====
